---- MODULE Spec2Model ----
(***************************************************************************)
(* Barnes-Hut octree of src/physics/octree.rs: the index-based node pool,  *)
(* OptimizedOctree::build / build_recursive, calculate_force and the       *)
(* diagnostics, as a state machine.                                        *)
(*                                                                         *)
(* Scalars.  Positions, bounds and masses are integers.  Input positions   *)
(* are multiples of Grid, so that the 1% expansion of build and the        *)
(* centres of the first subdivision levels are exact.  Below that the      *)
(* centre rounds to the resolution of the scalar type (Half), as f64 does  *)
(* at its own resolution.  A quotient weighted_sum / total_mass is kept as *)
(* an exact fraction in lowest terms (Ratio).                              *)
(***************************************************************************)
EXTENDS Integers, Sequences, FiniteSets, TLC

\* ---------------------------------------------------------------- bounds
MaxBodies == 3          \* longest body collection handed to build
MaxCalls == 2           \* cap on force_calculation_count
NumThreads == 2         \* concurrent readers of SpecConc
MaxBoundsDepth == 2     \* largest max_depth handed to get_bounds
MaxSlots == 3           \* SpecPool: cap on the storage and on the free list

\* spacing of the input positions: a multiple of 100 and of 4
Grid == 2 * 100

\* ------------------------------------------------------- Option<T>
None == <<>>
Some(x) == <<x>>
IsSome(o) == o # <<>>
Unwrap(o) == o[1]

\* ------------------------------------------------------- Vector / Scalar
ZERO == <<0, 0, 0>>
VAdd(a, b) == <<a[1] + b[1], a[2] + b[2], a[3] + b[3]>>
VSub(a, b) == <<a[1] - b[1], a[2] - b[2], a[3] - b[3]>>
VScale(a, k) == <<a[1] * k, a[2] * k, a[3] * k>>
Min2(x, y) == IF x <= y THEN x ELSE y
Max2(x, y) == IF x >= y THEN x ELSE y
VMin(a, b) == <<Min2(a[1], b[1]), Min2(a[2], b[2]), Min2(a[3], b[3])>>
VMax(a, b) == <<Max2(a[1], b[1]), Max2(a[2], b[2]), Max2(a[3], b[3])>>
LengthSquared(a) == a[1] * a[1] + a[2] * a[2] + a[3] * a[3]
Abs(x) == IF x < 0 THEN -x ELSE x

\* x * 0.5, rounded down to the scalar resolution
Half(x) == x \div 2
\* x * 0.01 (exact on the input grid)
Hundredth(x) == x \div 100

RECURSIVE GCD(_, _)
GCD(a, b) == IF b = 0 THEN a ELSE GCD(b, a % b)

\* the vector v / s for a scalar s > 0, as a fraction in lowest terms
Ratio(v, s) ==
    LET g == GCD(GCD(Abs(v[1]), Abs(v[2])), GCD(Abs(v[3]), s))
    IN  [n |-> <<v[1] \div g, v[2] \div g, v[3] \div g>>, d |-> s \div g]
\* Vector::ZERO as a fraction
RZERO == [n |-> ZERO, d |-> 1]

RECURSIVE SumSeq(_)
SumSeq(s) == IF s = <<>> THEN 0 ELSE Head(s) + SumSeq(Tail(s))
RECURSIVE VSumSeq(_)
VSumSeq(s) == IF s = <<>> THEN ZERO ELSE VAdd(Head(s), VSumSeq(Tail(s)))

\* ------------------------------------------------------- Aabb3d
Aabb3d_new(min, max) == [min |-> min, max |-> max]
center(b) == <<Half(b.min[1] + b.max[1]), Half(b.min[2] + b.max[2]),
               Half(b.min[3] + b.max[3])>>
size(b) == VSub(b.max, b.min)

\* the eight octants, child slot i at position i + 1
subdivide_into_children(b) ==
    LET c == center(b)
    IN  << Aabb3d_new(b.min, c),
           Aabb3d_new(<<c[1], b.min[2], b.min[3]>>, <<b.max[1], c[2], c[3]>>),
           Aabb3d_new(<<b.min[1], c[2], b.min[3]>>, <<c[1], b.max[2], c[3]>>),
           Aabb3d_new(<<c[1], c[2], b.min[3]>>, <<b.max[1], b.max[2], c[3]>>),
           Aabb3d_new(<<b.min[1], b.min[2], c[3]>>, <<c[1], c[2], b.max[3]>>),
           Aabb3d_new(<<c[1], b.min[2], c[3]>>, <<b.max[1], c[2], b.max[3]>>),
           Aabb3d_new(<<b.min[1], c[2], c[3]>>, <<c[1], b.max[2], b.max[3]>>),
           Aabb3d_new(c, b.max) >>

\* ------------------------------------------------------- OptimizedOctreeBodies
Bodies_new == [entities |-> <<>>, positions |-> <<>>, masses |-> <<>>]
Bodies_push(bs, entity, position, mass) ==
    [entities |-> Append(bs.entities, entity),
     positions |-> Append(bs.positions, position),
     masses |-> Append(bs.masses, mass)]
Bodies_len(bs) == Len(bs.entities)
Bodies_iter(bs) ==
    [i \in 1..Len(bs.entities) |->
        [position |-> bs.positions[i], entity |-> bs.entities[i],
         mass |-> bs.masses[i]]]
Bodies_total_mass(bs) == SumSeq(bs.masses)
Bodies_center_of_mass(bs) ==
    IF Bodies_len(bs) = 0 THEN RZERO
    ELSE LET total_mass == Bodies_total_mass(bs)
         IN  IF total_mass > 0
             THEN Ratio(VSumSeq([i \in 1..Len(bs.positions) |->
                                    VScale(bs.positions[i], bs.masses[i])]),
                        total_mass)
             ELSE RZERO

\* ------------------------------------------------------- OptimizedOctreeNode
NoChildren == <<None, None, None, None, None, None, None, None>>

new_internal(bounds, center_of_mass, total_mass) ==
    [hot_data |-> [center_of_mass |-> center_of_mass, total_mass |-> total_mass,
                   bounds_center |-> center(bounds), bounds_size |-> size(bounds)],
     cold_data |-> [bounds |-> bounds, children_indices |-> NoChildren,
                    body_count |-> 0, node_type |-> "Internal"],
     bodies |-> Bodies_new]

new_external(bounds) ==
    [hot_data |-> [center_of_mass |-> RZERO, total_mass |-> 0,
                   bounds_center |-> center(bounds), bounds_size |-> size(bounds)],
     cold_data |-> [bounds |-> bounds, children_indices |-> NoChildren,
                    body_count |-> 0, node_type |-> "External"],
     bodies |-> Bodies_new]

is_internal(node) == node.cold_data.node_type = "Internal"
is_external(node) == node.cold_data.node_type = "External"

body_count(node) ==
    IF is_external(node) THEN Bodies_len(node.bodies) ELSE node.cold_data.body_count

\* add_body with the push replaced by an overwrite of the leaf's storage
\* (BodyConservation must tell the two apart)
add_body_overwriting(node, entity, position, mass) ==
    LET bs == Bodies_push(Bodies_new, entity, position, mass)
    IN  [node EXCEPT !.bodies = bs,
                     !.cold_data.body_count = Bodies_len(bs),
                     !.hot_data.total_mass = Bodies_total_mass(bs),
                     !.hot_data.center_of_mass = Bodies_center_of_mass(bs)]

add_body(node, entity, position, mass) ==
    LET bs == Bodies_push(node.bodies, entity, position, mass)
    IN  [node EXCEPT !.bodies = bs,
                     !.cold_data.body_count = Bodies_len(bs),
                     !.hot_data.total_mass = Bodies_total_mass(bs),
                     !.hot_data.center_of_mass = Bodies_center_of_mass(bs)]

RECURSIVE add_bodies(_, _)
add_bodies(node, bodies) ==
    IF bodies = <<>> THEN node
    ELSE add_bodies(add_body(node, Head(bodies).entity, Head(bodies).position,
                             Head(bodies).mass),
                    Tail(bodies))

set_child_index(node, child_index, node_index) ==
    [node EXCEPT !.cold_data.children_indices[child_index + 1] = node_index]

update_internal_data(node, center_of_mass, total_mass, count) ==
    [node EXCEPT !.hot_data.center_of_mass = center_of_mass,
                 !.hot_data.total_mass = total_mass,
                 !.cold_data.body_count = count]

\* ------------------------------------------------------- OptimizedOctreeNodePool
\* nodes[i + 1] is the slot of index i; capacity is nodes.capacity()
Pool_new == [nodes |-> <<>>, free_indices |-> <<>>, next_index |-> 0, capacity |-> 0]
Pool_with_capacity(c) ==
    [nodes |-> <<>>, free_indices |-> <<>>, next_index |-> 0, capacity |-> c]

\* Vec::push: amortised growth when the buffer is full
VecPushCapacity(len, cap) ==
    IF len < cap THEN cap ELSE Max2(Max2(2 * cap, len + 1), 4)

\* allocate_node that reuses the index freed first, a queue where the code has
\* a stack (AllocateContract must tell the two apart)
allocate_node_oldest_free(pool, node) ==
    IF pool.free_indices # <<>>
    THEN [pool |-> [pool EXCEPT !.free_indices = Tail(@),
                                !.nodes[Head(pool.free_indices) + 1] = node],
          index |-> Head(pool.free_indices)]
    ELSE [pool |-> [pool EXCEPT !.nodes = Append(@, node),
                                !.next_index = @ + 1,
                                !.capacity = VecPushCapacity(Len(pool.nodes), @)],
          index |-> pool.next_index]

\* OptimizedOctreeNodePool::allocate_node(node): the pool it leaves and the
\* index it returns
allocate_node(pool, node) ==
    IF pool.free_indices # <<>>
    THEN LET index == pool.free_indices[Len(pool.free_indices)]
         IN  [pool |-> [pool EXCEPT !.free_indices = SubSeq(@, 1, Len(@) - 1),
                                    !.nodes[index + 1] = node],
              index |-> index]
    ELSE [pool |-> [pool EXCEPT !.nodes = Append(@, node),
                                !.next_index = @ + 1,
                                !.capacity = VecPushCapacity(Len(pool.nodes), @)],
          index |-> pool.next_index]

get_node(pool, index) ==
    IF index >= 0 /\ index < Len(pool.nodes) THEN Some(pool.nodes[index + 1]) ELSE None

\* deallocate_node that leaves the child links of the freed slot in place
\* (DeallocateContract must tell the two apart)
deallocate_node_keeping_children(pool, index) ==
    IF index < Len(pool.nodes)
    THEN [pool EXCEPT !.nodes[index + 1].bodies = Bodies_new,
                      !.free_indices = Append(@, index)]
    ELSE pool

deallocate_node(pool, index) ==
    IF index < Len(pool.nodes)
    THEN [pool EXCEPT !.nodes[index + 1].bodies = Bodies_new,
                      !.nodes[index + 1].cold_data.children_indices = NoChildren,
                      !.free_indices = Append(@, index)]
    ELSE pool

\* clear that forgets "self.next_index = 0" (RebuildMatchesFresh must tell the
\* two apart)
Pool_clear_keeping_next(pool) ==
    [pool EXCEPT !.nodes = <<>>, !.free_indices = <<>>]

Pool_clear(pool) ==
    [pool EXCEPT !.nodes = <<>>, !.free_indices = <<>>, !.next_index = 0]

Pool_stats(pool) == <<Len(pool.nodes), Len(pool.free_indices)>>

\* ------------------------------------------------------- state
VARIABLES
    root_index,               \* OptimizedOctree.root_index : Option<u32>
    node_pool,                \* OptimizedOctree.node_pool
    theta,                    \* OptimizedOctree.theta, the fraction num / den
    leaf_threshold,           \* OptimizedOctree.leaf_threshold
    force_calculation_count,  \* OptimizedOctree.force_calculation_count (AtomicU64)
    crashed,                  \* the process overflowed its stack inside build, or panicked
    built,                    \* the collection given to the last completed build
    calls,                    \* calculate_force calls made so far: [total, on_tree]
    reported,                 \* force_calculation_count of the last octree_stats()
    pc, query, result,        \* per reader thread: position, argument, return value
    legacy,                   \* the LegacyOctree: [root, octree_node_pool,
                              \*                    force_calculation_count]
    legacy_built,             \* the collection given to its last completed build
    held                      \* SpecPool: the indices allocate_node returned that were
                              \* not given to deallocate_node or cleared since

vars == <<root_index, node_pool, theta, leaf_threshold, force_calculation_count,
          crashed, built, calls, reported, pc, query, result, legacy, legacy_built,
          held>>

\* ------------------------------------------------------- OptimizedOctree::build
\* "(position.x > center.x) | (position.y > center.y) << 1 | (position.z > center.z) << 2"
get_octant_index_of(position, c) ==
    (IF position[1] > c[1] THEN 1 ELSE 0)
    + 2 * (IF position[2] > c[2] THEN 1 ELSE 0)
    + 4 * (IF position[3] > c[3] THEN 1 ELSE 0)

\* the octant rule with a strict comparison, as LegacyOctree::get_octant_index
\* has it (ChildIndexRule must tell the two apart)
determine_child_index_strict(position, bounds) ==
    get_octant_index_of(position, center(bounds))

\* OptimizedOctree::determine_child_index(position, bounds)
determine_child_index(position, bounds) ==
    LET c == center(bounds)
        dx == IF position[1] >= c[1] THEN 1 ELSE 0
        dy == IF position[2] >= c[2] THEN 1 ELSE 0
        dz == IF position[3] >= c[3] THEN 1 ELSE 0
    IN  dx + 2 * dy + 4 * dz

DivCeil(a, b) == (a + b - 1) \div b

estimate_node_capacity(count) ==
    IF count <= leaf_threshold THEN 1
    ELSE LET estimated_leaf_nodes == DivCeil(count, leaf_threshold)
             estimated_internal_nodes == Max2(estimated_leaf_nodes - 1, 0) \div 7
             total_estimated == estimated_leaf_nodes + estimated_internal_nodes
             with_margin == (total_estimated * 3) \div 2
         IN  Max2(Min2(with_margin, count * 2), 16)

RECURSIVE deallocate_tree_recursive(_, _)
RECURSIVE deallocate_children(_, _)
deallocate_children(pool, child_indices) ==
    IF child_indices = <<>> THEN pool
    ELSE deallocate_children(deallocate_tree_recursive(pool, Head(child_indices)),
                             Tail(child_indices))
\* deallocate_tree_recursive that frees the node and forgets its children
\* (ArenaPartition must tell the two apart)
deallocate_tree_root_only(pool, node_index) == deallocate_node(pool, node_index)

deallocate_tree_recursive(pool, node_index) ==
    LET n == get_node(pool, node_index)
        child_indices ==
            IF IsSome(n) /\ is_internal(Unwrap(n))
            THEN LET present == SelectSeq(Unwrap(n).cold_data.children_indices, IsSome)
                 IN  [k \in 1..Len(present) |-> Unwrap(present[k])]
            ELSE <<>>
    IN  deallocate_node(deallocate_children(pool, child_indices), node_index)

\* More than leaf_threshold bodies at one position: determine_child_index is a
\* function of the position and the bounds, so every level sends all of them
\* to one child again and build_recursive never reaches a leaf.
Coincident(bodies) == \A k \in 1..Len(bodies) : bodies[k].position = bodies[1].position

\* The result of build_recursive: the pool, and ok = FALSE when the call does
\* not return (it recurses on a Coincident collection until the stack
\* overflows).
RECURSIVE build_recursive(_, _, _)
RECURSIVE build_children(_, _, _, _, _)

\* the leaf test off by one (LeafThresholdRespected must tell the two apart)
is_leaf_off_by_one(count) == count <= leaf_threshold + 1

\* "bodies.len() <= self.leaf_threshold"
is_leaf(count) == count <= leaf_threshold

MassSum(bodies) == SumSeq([k \in 1..Len(bodies) |-> bodies[k].mass])
WeightedSum(bodies) ==
    VSumSeq([k \in 1..Len(bodies) |-> VScale(bodies[k].position, bodies[k].mass)])

\* link_child that files the child under the next slot (OctantBounds must tell
\* the two apart)
link_child_next_slot(pool, node_index, i, child_index) ==
    IF IsSome(get_node(pool, node_index))
    THEN [pool EXCEPT !.nodes[node_index + 1] =
              set_child_index(@, (i + 1) % 8, Some(child_index))]
    ELSE pool

\* "Set child reference in parent"
link_child(pool, node_index, i, child_index) ==
    IF IsSome(get_node(pool, node_index))
    THEN [pool EXCEPT !.nodes[node_index + 1] = set_child_index(@, i, Some(child_index))]
    ELSE pool

\* "Recursively build child if it's internal", after allocate_node gave alloc
build_child(alloc, node_index, i, leaf, bodies_for_child) ==
    IF leaf
    THEN [pool |-> link_child(alloc.pool, node_index, i, alloc.index), ok |-> TRUE]
    ELSE IF Coincident(bodies_for_child)
    THEN [pool |-> link_child(alloc.pool, node_index, i, alloc.index), ok |-> FALSE]
    ELSE build_recursive(link_child(alloc.pool, node_index, i, alloc.index),
                         alloc.index, bodies_for_child)

\* the accumulation with "body.position * body.mass" replaced by body.position
\* (AggregatesMatchSubtree must tell the two apart)
accumulate_child_unweighted(acc, sub, bodies_for_child) ==
    [pool |-> sub.pool,
     total_mass |-> acc.total_mass + MassSum(bodies_for_child),
     weighted_position_sum |->
         VAdd(acc.weighted_position_sum,
              VSumSeq([k \in 1..Len(bodies_for_child) |-> bodies_for_child[k].position])),
     total_body_count |-> acc.total_body_count + Len(bodies_for_child),
     ok |-> sub.ok]

\* the accumulators after child slot i: sub is what build_child left
accumulate_child(acc, sub, bodies_for_child) ==
    [pool |-> sub.pool,
     total_mass |-> acc.total_mass + MassSum(bodies_for_child),
     weighted_position_sum |->
         VAdd(acc.weighted_position_sum, WeightedSum(bodies_for_child)),
     total_body_count |-> acc.total_body_count + Len(bodies_for_child),
     ok |-> sub.ok]

\* the loop "for (i, bodies_for_child) in child_bodies" from slot i on;
\* acc = [pool, total_mass, weighted_position_sum, total_body_count, ok]
build_children(acc, node_index, child_bounds, child_bodies, i) ==
    IF i = 8 \/ ~acc.ok THEN acc
    ELSE IF child_bodies[i + 1] = <<>>
    THEN build_children(acc, node_index, child_bounds, child_bodies, i + 1)
    ELSE build_children(
            accumulate_child(acc,
                build_child(
                    allocate_node(acc.pool,
                        IF is_leaf(Len(child_bodies[i + 1]))
                        THEN add_bodies(new_external(child_bounds[i + 1]),
                                        child_bodies[i + 1])
                        ELSE new_internal(child_bounds[i + 1], RZERO, 0)),
                    node_index, i, is_leaf(Len(child_bodies[i + 1])),
                    child_bodies[i + 1]),
                child_bodies[i + 1]),
            node_index, child_bounds, child_bodies, i + 1)

\* a distribution that passes over the first body of the list
\* (OrderIndependent must tell the two apart)
distribute_skipping_first(bodies, bounds) ==
    [i \in 1..8 |->
        SelectSeq(Tail(bodies),
                  LAMBDA b : determine_child_index(b.position, bounds) = i - 1)]

\* "Distribute bodies to children"
distribute(bodies, bounds) ==
    [i \in 1..8 |->
        SelectSeq(bodies, LAMBDA b : determine_child_index(b.position, bounds) = i - 1)]

\* "Update parent node's center of mass and total mass"
finish_parent(acc, node_index) ==
    IF ~acc.ok THEN [pool |-> acc.pool, ok |-> FALSE]
    ELSE IF ~IsSome(get_node(acc.pool, node_index)) THEN [pool |-> acc.pool, ok |-> TRUE]
    ELSE [pool |-> [acc.pool EXCEPT !.nodes[node_index + 1] =
                        update_internal_data(@,
                            IF acc.total_mass > 0
                            THEN Ratio(acc.weighted_position_sum, acc.total_mass)
                            ELSE RZERO,
                            acc.total_mass, acc.total_body_count)],
          ok |-> TRUE]

subdivide_and_build(pool, node_index, bodies, bounds) ==
    finish_parent(
        build_children([pool |-> pool, total_mass |-> 0, weighted_position_sum |-> ZERO,
                        total_body_count |-> 0, ok |-> TRUE],
                       node_index, subdivide_into_children(bounds),
                       distribute(bodies, bounds), 0),
        node_index)

build_recursive(pool, node_index, bodies) ==
    IF is_leaf(Len(bodies))
    THEN IF IsSome(get_node(pool, node_index))
         THEN [pool |-> [pool EXCEPT !.nodes[node_index + 1] =
                            add_bodies([@ EXCEPT !.cold_data.node_type = "External"],
                                       bodies)],
               ok |-> TRUE]
         ELSE [pool |-> pool, ok |-> TRUE]
    ELSE IF ~IsSome(get_node(pool, node_index))
    THEN [pool |-> pool, ok |-> TRUE]
    ELSE subdivide_and_build(pool, node_index, bodies,
                             Unwrap(get_node(pool, node_index)).cold_data.bounds)

build_from_root(index, rec) ==
    [root_index |-> Some(index), node_pool |-> rec.pool, ok |-> rec.ok]

\* a root that is made a leaf whatever the number of bodies (RootKind must
\* tell the two apart)
root_node_always_leaf(bodies, root_bounds) ==
    add_bodies(new_external(root_bounds), bodies)

\* the node build allocates for the root
root_node(bodies, root_bounds) ==
    IF is_leaf(Len(bodies))
    THEN add_bodies(new_external(root_bounds), bodies)
    ELSE new_internal(root_bounds, RZERO, 0)

RECURSIVE FoldMin(_, _)
FoldMin(m, bodies) ==
    IF bodies = <<>> THEN m ELSE FoldMin(VMin(m, Head(bodies).position), Tail(bodies))
RECURSIVE FoldMax(_, _)
FoldMax(m, bodies) ==
    IF bodies = <<>> THEN m ELSE FoldMax(VMax(m, Head(bodies).position), Tail(bodies))

\* "Pre-allocate node pool with estimated capacity"
reset_pool(pool, estimated_capacity) ==
    IF pool.capacity < estimated_capacity
    THEN Pool_with_capacity(estimated_capacity)
    ELSE Pool_clear(pool)

\* "Expand bounds slightly to ensure all bodies are inside"
expand_bounds(min, max) ==
    Aabb3d_new(
        VSub(min, <<Hundredth(max[1] - min[1]), Hundredth(max[2] - min[2]),
                    Hundredth(max[3] - min[3])>>),
        VAdd(max, <<Hundredth(max[1] - min[1]), Hundredth(max[2] - min[2]),
                    Hundredth(max[3] - min[3])>>))

\* "Create root node", alloc being the root's allocation
build_root(alloc, bodies) ==
    IF is_leaf(Len(bodies))
    THEN [root_index |-> Some(alloc.index), node_pool |-> alloc.pool, ok |-> TRUE]
    ELSE build_from_root(alloc.index, build_recursive(alloc.pool, alloc.index, bodies))

\* "Clear existing tree": root_index.take() and the deallocation of the old tree
clear_existing_tree(root, pool) ==
    IF IsSome(root) THEN deallocate_tree_recursive(pool, Unwrap(root)) ELSE pool

\* the empty build that frees the old tree but keeps its root index
\* (EmptyBuildLeavesNoTree must tell the two apart)
build_empty_keeping_root(root, pool) ==
    [root_index |-> root, node_pool |-> clear_existing_tree(root, pool), ok |-> TRUE]

\* build of an empty collection: the old tree is cleared, "self.root_index = None"
build_empty(root, pool) ==
    [root_index |-> None, node_pool |-> clear_existing_tree(root, pool), ok |-> TRUE]

\* build on the octree (root, pool): the octree it leaves, ok as in build_recursive
build(root, pool, bodies) ==
    IF bodies = <<>>
    THEN build_empty(root, pool)
    ELSE build_root(
            allocate_node(
                reset_pool(clear_existing_tree(root, pool),
                           estimate_node_capacity(Len(bodies))),
                root_node(bodies,
                          expand_bounds(FoldMin(Head(bodies).position, Tail(bodies)),
                                        FoldMax(Head(bodies).position, Tail(bodies))))),
            bodies)

\* ------------------------------------------------------- diagnostics
RECURSIVE count_nodes_recursive(_, _)
RECURSIVE count_nodes_children(_, _, _)
count_nodes_children(pool, children_indices, k) ==
    IF k > 8 THEN 0
    ELSE (IF IsSome(children_indices[k])
          THEN count_nodes_recursive(pool, Unwrap(children_indices[k]))
          ELSE 0)
         + count_nodes_children(pool, children_indices, k + 1)
count_nodes_recursive(pool, node_index) ==
    IF IsSome(get_node(pool, node_index))
    THEN IF is_internal(Unwrap(get_node(pool, node_index)))
         THEN 1 + count_nodes_children(pool,
                    Unwrap(get_node(pool, node_index)).cold_data.children_indices, 1)
         ELSE 1
    ELSE 0

OctreeStats_default ==
    [node_count |-> 0, body_count |-> 0, total_mass |-> 0, center_of_mass |-> RZERO,
     force_calculation_count |-> 0]

\* octree_stats that loads the counter for an empty tree too
\* (ReportedCountOfTree must tell the two apart)
octree_stats_loading_counter(root, pool, counter) ==
    IF IsSome(root) /\ IsSome(get_node(pool, Unwrap(root)))
    THEN [node_count |-> count_nodes_recursive(pool, Unwrap(root)),
          body_count |-> body_count(Unwrap(get_node(pool, Unwrap(root)))),
          total_mass |-> Unwrap(get_node(pool, Unwrap(root))).hot_data.total_mass,
          center_of_mass |-> Unwrap(get_node(pool, Unwrap(root))).hot_data.center_of_mass,
          force_calculation_count |-> counter]
    ELSE [OctreeStats_default EXCEPT !.force_calculation_count = counter]

\* OptimizedOctree::octree_stats on the octree (root, pool, counter)
octree_stats(root, pool, counter) ==
    IF IsSome(root) /\ IsSome(get_node(pool, Unwrap(root)))
    THEN [node_count |-> count_nodes_recursive(pool, Unwrap(root)),
          body_count |-> body_count(Unwrap(get_node(pool, Unwrap(root)))),
          total_mass |-> Unwrap(get_node(pool, Unwrap(root))).hot_data.total_mass,
          center_of_mass |-> Unwrap(get_node(pool, Unwrap(root))).hot_data.center_of_mass,
          force_calculation_count |-> counter]
    ELSE OctreeStats_default

\* OptimizedOctree::root_node
root_node_of(root, pool) ==
    IF IsSome(root) THEN get_node(pool, Unwrap(root)) ELSE None

\* max_depth : Option<usize>
RECURSIVE collect_bounds_recursive(_, _, _, _)
RECURSIVE collect_bounds_children(_, _, _, _, _)
\* the loop over the children that stays at the depth of the parent
\* (BoundsByDepth must tell the two apart)
collect_bounds_children_same_depth(pool, children_indices, k, current_depth, max_depth) ==
    IF k > 8 THEN <<>>
    ELSE (IF IsSome(children_indices[k])
          THEN collect_bounds_recursive(pool, Unwrap(children_indices[k]),
                                        current_depth, max_depth)
          ELSE <<>>)
         \o collect_bounds_children(pool, children_indices, k + 1, current_depth,
                                    max_depth)
collect_bounds_children(pool, children_indices, k, current_depth, max_depth) ==
    IF k > 8 THEN <<>>
    ELSE (IF IsSome(children_indices[k])
          THEN collect_bounds_recursive(pool, Unwrap(children_indices[k]),
                                        current_depth + 1, max_depth)
          ELSE <<>>)
         \o collect_bounds_children(pool, children_indices, k + 1, current_depth,
                                    max_depth)
collect_bounds_recursive(pool, node_index, current_depth, max_depth) ==
    IF IsSome(max_depth) /\ current_depth > Unwrap(max_depth) THEN <<>>
    ELSE IF IsSome(get_node(pool, node_index))
    THEN <<Unwrap(get_node(pool, node_index)).cold_data.bounds>>
         \o (IF is_internal(Unwrap(get_node(pool, node_index)))
             THEN collect_bounds_children(pool,
                      Unwrap(get_node(pool, node_index)).cold_data.children_indices,
                      1, current_depth, max_depth)
             ELSE <<>>)
    ELSE <<>>

\* the width of usize on the 64-bit targets the program is built for
UsizeBits == 64

\* A usize is kept as the set of its one bits. 8_usize.pow(d) is the bit 3 * d;
\* from 3 * d = UsizeBits on the product does not fit: with overflow checks
\* (debug builds) the multiplication panics, without them (release builds) it
\* wraps, and 2^(3 * d) modulo 2^UsizeBits is 0.
pow8(d) ==
    [bits |-> IF 3 * d < UsizeBits THEN {3 * d} ELSE {},
     overflowed |-> 3 * d >= UsizeBits]

\* (0..=depth).map(|d| 8_usize.pow(d as u32)).sum::<usize>() from term d on: the
\* terms are distinct powers of two, so adding them is the union of their bits
RECURSIVE sum_pow8(_, _, _)
sum_pow8(acc, d, depth) ==
    IF d > depth THEN acc
    ELSE sum_pow8([bits |-> acc.bits \cup pow8(d).bits,
                   overflowed |-> acc.overflowed \/ pow8(d).overflowed],
                  d + 1, depth)

RECURSIVE usize_of(_)
usize_of(bits) ==
    IF bits = {} THEN 0
    ELSE LET b == CHOOSE x \in bits : TRUE IN 2 ^ b + usize_of(bits \ {b})

\* ".min(1024)": 1024 is bit 10
min_1024(bits) == IF \E b \in bits : b >= 10 THEN 1024 ELSE usize_of(bits)

\* "let estimated_capacity = match max_depth": the capacity, whether a term
\* overflowed, and whether that overflow panicked
estimated_capacity(max_depth, overflow_checks) ==
    IF IsSome(max_depth)
    THEN [capacity |-> min_1024(sum_pow8([bits |-> {}, overflowed |-> FALSE], 0,
                                         Unwrap(max_depth)).bits),
          overflowed |-> sum_pow8([bits |-> {}, overflowed |-> FALSE], 0,
                                  Unwrap(max_depth)).overflowed,
          panicked |-> overflow_checks
                       /\ sum_pow8([bits |-> {}, overflowed |-> FALSE], 0,
                                   Unwrap(max_depth)).overflowed]
    ELSE [capacity |-> 64, overflowed |-> FALSE, panicked |-> FALSE]

\* get_bounds that forgets the depth limit (RootBoundsWhenBuilt must tell the
\* two apart)
get_bounds_unlimited(root, pool, max_depth) ==
    IF IsSome(root) THEN collect_bounds_recursive(pool, Unwrap(root), 0, None)
    ELSE <<>>

\* OptimizedOctree::get_bounds(max_depth)
get_bounds(root, pool, max_depth) ==
    IF IsSome(root) THEN collect_bounds_recursive(pool, Unwrap(root), 0, max_depth)
    ELSE <<>>

\* ------------------------------------------------------- force traversal
\* A force is kept as the sequence of the contributions the traversal sums, in
\* the order it sums them: the source of each call of calculate_force_from_point.
\* Vector::ZERO, the sum of no contribution, is <<>>.
\* A contribution: [kind, source, position (a fraction), mass].
ForceZERO == <<>>

\* calculate_direct_force(body, other_body, g)
calculate_direct_force(body, other_body) ==
    [kind |-> "body", source |-> other_body.entity,
     position |-> [n |-> other_body.position, d |-> 1], mass |-> other_body.mass]

\* calculate_force_from_point(body, node centre of mass, node total mass, g)
calculate_force_from_node(body, node_index, node) ==
    [kind |-> "node", source |-> node_index,
     position |-> node.hot_data.center_of_mass, mass |-> node.hot_data.total_mass]

\* the criterion turned round: a node is taken as a point when the body is
\* near and opened when it is far (ExactBelowThetaBound must tell the two apart)
use_approximation_when_near(body, node) ==
    LengthSquared(node.hot_data.bounds_size) * theta.den * theta.den
            * node.hot_data.center_of_mass.d * node.hot_data.center_of_mass.d
        > theta.num * theta.num
            * LengthSquared(VSub(VScale(body.position, node.hot_data.center_of_mass.d),
                                 node.hot_data.center_of_mass.n))

\* node_size / distance_to_center < theta, on the squares:
\* distance_to_center = |d * position - n| / d for center_of_mass = n / d.
\* A distance of zero gives inf or NaN, which is not below theta.
use_approximation(body, node) ==
    LengthSquared(node.hot_data.bounds_size) * theta.den * theta.den
            * node.hot_data.center_of_mass.d * node.hot_data.center_of_mass.d
        < theta.num * theta.num
            * LengthSquared(VSub(VScale(body.position, node.hot_data.center_of_mass.d),
                                 node.hot_data.center_of_mass.n))

\* the leaf loop without the identity test (SelfExclusionUpToOne must tell the
\* two apart)
interacts_with_any(body, other_body) == TRUE

\* "if other_body.entity != body.entity"
interacts(body, other_body) == other_body.entity # body.entity

RECURSIVE calculate_force_recursive(_, _, _)
RECURSIVE calculate_force_children(_, _, _, _)
calculate_force_children(pool, body, children_indices, k) ==
    IF k > 8 THEN ForceZERO
    ELSE (IF IsSome(children_indices[k])
          THEN calculate_force_recursive(pool, body, Unwrap(children_indices[k]))
          ELSE ForceZERO)
         \o calculate_force_children(pool, body, children_indices, k + 1)

leaf_force(body, others) ==
    [k \in 1..Len(SelectSeq(others, LAMBDA o : interacts(body, o))) |->
        calculate_direct_force(body, SelectSeq(others, LAMBDA o : interacts(body, o))[k])]

calculate_force_recursive(pool, body, node_index) ==
    IF ~IsSome(get_node(pool, node_index)) THEN ForceZERO
    ELSE IF is_external(Unwrap(get_node(pool, node_index)))
    THEN leaf_force(body, Bodies_iter(Unwrap(get_node(pool, node_index)).bodies))
    ELSE IF use_approximation(body, Unwrap(get_node(pool, node_index)))
    THEN <<calculate_force_from_node(body, node_index, Unwrap(get_node(pool, node_index)))>>
    ELSE calculate_force_children(pool, body,
             Unwrap(get_node(pool, node_index)).cold_data.children_indices, 1)

\* force_calculation_count.fetch_add(1, Relaxed): the value the counter takes
fetch_add(counter) == counter + 1

\* calculate_force that counts every contribution it sums, as
\* LegacyOctree::calculate_force_from_point does (CounterCountsCallsOnTree must
\* tell the two apart)
calculate_force_counting_contributions(root, pool, counter, body) ==
    IF IsSome(root)
    THEN [counter |-> counter + Len(calculate_force_recursive(pool, body, Unwrap(root))),
          force |-> calculate_force_recursive(pool, body, Unwrap(root))]
    ELSE [counter |-> counter, force |-> ForceZERO]

\* calculate_force on the octree (root, pool, counter): the counter it
\* leaves and the force it returns
calculate_force(root, pool, counter, body) ==
    IF IsSome(root)
    THEN [counter |-> fetch_add(counter),
          force |-> calculate_force_recursive(pool, body, Unwrap(root))]
    ELSE [counter |-> counter, force |-> ForceZERO]

\* ------------------------------------------------------- LegacyOctreeNodePool
\* The buffers the pool holds are empty (children taken, bodies cleared), so
\* the pool is the number of buffers in each queue.
LegacyPool_new == [internal_nodes |-> 0, external_bodies |-> 0]

\* pop_front, or a new buffer when the queue is empty
get_internal_children(pool) == [pool EXCEPT !.internal_nodes = Max2(@ - 1, 0)]
get_external_bodies(pool) == [pool EXCEPT !.external_bodies = Max2(@ - 1, 0)]

return_external_bodies(pool) == [pool EXCEPT !.external_bodies = @ + 1]

RECURSIVE return_node(_, _)
RECURSIVE return_children(_, _, _)
return_children(pool, children, k) ==
    IF k > 8 THEN pool
    ELSE return_children(IF IsSome(children[k])
                         THEN return_node(pool, Unwrap(children[k]))
                         ELSE pool,
                         children, k + 1)
return_internal_children(pool, children) ==
    [return_children(pool, children, 1) EXCEPT !.internal_nodes = @ + 1]
return_node(pool, node) ==
    IF node.type = "Internal"
    THEN return_internal_children(pool, node.children)
    ELSE return_external_bodies(pool)

LegacyPool_clear(pool) == LegacyPool_new
LegacyPool_stats(pool) == <<pool.internal_nodes, pool.external_bodies>>

\* ------------------------------------------------------- LegacyOctree::build
\* enum OctreeNode
External(bounds, bodies) == [type |-> "External", bounds |-> bounds, bodies |-> bodies]
Internal(bounds, center_of_mass, total_mass, children) ==
    [type |-> "Internal", bounds |-> bounds, center_of_mass |-> center_of_mass,
     total_mass |-> total_mass, children |-> children]

LegacyOctree_new ==
    [root |-> None, octree_node_pool |-> LegacyPool_new, force_calculation_count |-> 0]

\* LegacyOctree::get_octant_index(position, center)
get_octant_index(position, c) == get_octant_index_of(position, c)

\* "(max - min) * 0.1"
Tenth(x) == x \div 10

\* the eight get_external_bodies and the get_internal_children of an internal node
take_octant_buffers(pool) ==
    [internal_nodes |-> Max2(pool.internal_nodes - 1, 0),
     external_bodies |-> Max2(pool.external_bodies - 8, 0)]

\* centre of mass of an internal node: the centre of the box when the mass is
\* not positive
Legacy_center_of_mass(bounds, bodies) ==
    IF MassSum(bodies) > 0
    THEN Ratio(WeightedSum(bodies), MassSum(bodies))
    ELSE [n |-> center(bounds), d |-> 1]

RECURSIVE build_node(_, _, _)
RECURSIVE build_octants(_, _, _, _)

\* set_octant that stores every child in the last slot (LegacyCountsBodies
\* must tell the two apart)
set_octant_in_last_slot(acc, i, sub) ==
    [children |-> [acc.children EXCEPT ![8] = Some(sub.node)],
     pool |-> sub.pool, ok |-> sub.ok]

\* children[i] = Some(build_node(..)), sub being what that build_node returned
set_octant(acc, i, sub) ==
    [children |-> [acc.children EXCEPT ![i + 1] = Some(sub.node)],
     pool |-> sub.pool, ok |-> sub.ok]

\* the loop "for (i, bodies_in_octant) in octant_bodies" from octant i on;
\* acc = [children, pool, ok]
build_octants(acc, octants, octant_bodies, i) ==
    IF i = 8 \/ ~acc.ok THEN acc
    ELSE IF octant_bodies[i + 1] = <<>>
    THEN build_octants([acc EXCEPT !.pool = return_external_bodies(@)],
                       octants, octant_bodies, i + 1)
    ELSE build_octants(
            set_octant(acc, i, build_node(octants[i + 1], octant_bodies[i + 1], acc.pool)),
            octants, octant_bodies, i + 1)

\* the Internal node made of what build_octants returned
internal_of(bounds, bodies, acc) ==
    [node |-> Internal(bounds, Legacy_center_of_mass(bounds, bodies), MassSum(bodies),
                       acc.children),
     pool |-> acc.pool, ok |-> acc.ok]

\* build_node(bounds, bodies, leaf_threshold, pool): the node and the pool it
\* leaves; ok is FALSE when the recursion never returns (bodies that no
\* subdivision separates)
build_node(bounds, bodies, pool) ==
    IF Len(bodies) <= leaf_threshold
    THEN [node |-> External(bounds, bodies), pool |-> get_external_bodies(pool),
          ok |-> TRUE]
    ELSE IF Coincident(bodies)
    THEN [node |-> External(bounds, bodies), pool |-> pool, ok |-> FALSE]
    ELSE internal_of(bounds, bodies,
            build_octants([children |-> NoChildren, pool |-> take_octant_buffers(pool),
                           ok |-> TRUE],
                          subdivide_into_children(bounds),
                          [i \in 1..8 |->
                              SelectSeq(bodies, LAMBDA b :
                                  get_octant_index(b.position, center(bounds)) = i - 1)],
                          0))

\* "let padding = (max - min) * 0.1"
pad_bounds(min, max) ==
    Aabb3d_new(
        VSub(min, <<Tenth(max[1] - min[1]), Tenth(max[2] - min[2]),
                    Tenth(max[3] - min[3])>>),
        VAdd(max, <<Tenth(max[1] - min[1]), Tenth(max[2] - min[2]),
                    Tenth(max[3] - min[3])>>))

\* self.root.take() and return_node(old_root)
return_old_root(octree) ==
    IF IsSome(octree.root)
    THEN return_node(octree.octree_node_pool, Unwrap(octree.root))
    ELSE octree.octree_node_pool

\* the octree with the root build_node returned
with_root(octree, b) ==
    [octree |-> [octree EXCEPT !.root = Some(b.node), !.octree_node_pool = b.pool],
     ok |-> b.ok]

\* LegacyOctree::build on octree: the octree it leaves, ok as in build_node
Legacy_build(octree, bodies) ==
    IF bodies = <<>>
    THEN [octree |-> [octree EXCEPT !.root = None,
                                    !.octree_node_pool = return_old_root(octree)],
          ok |-> TRUE]
    ELSE with_root(octree,
            build_node(pad_bounds(FoldMin(Head(bodies).position, Tail(bodies)),
                                  FoldMax(Head(bodies).position, Tail(bodies))),
                       bodies, return_old_root(octree)))

\* ------------------------------------------------------- LegacyOctree queries
\* min_distance * min_distance, for min_distance = 2.0 (both octrees are
\* constructed with the same theta, min_distance and max_force)
min_distance_squared == (2 * Grid) * (2 * Grid)

\* |position - point|^2 < min_distance^2 for point = n / d
within_min_distance(position, point) ==
    LengthSquared(VSub(VScale(position, point.d), point.n))
        < min_distance_squared * point.d * point.d

\* calculate_force_from_point that counts and contributes below min_distance
\* as well (CounterCountsFarPoints must tell the two apart)
Legacy_calculate_force_from_point_any(body, kind, point_position, point_mass) ==
    <<[kind |-> kind, source |-> 0, position |-> point_position, mass |-> point_mass]>>

\* LegacyOctree::calculate_force_from_point: no contribution (and no count)
\* below min_distance, else one contribution
Legacy_calculate_force_from_point(body, kind, point_position, point_mass) ==
    IF within_min_distance(body.position, point_position) THEN ForceZERO
    ELSE <<[kind |-> kind, source |-> 0, position |-> point_position,
            mass |-> point_mass]>>

Legacy_calculate_direct_force(body1, body2) ==
    Legacy_calculate_force_from_point(body1, "body",
        [n |-> body2.position, d |-> 1], body2.mass)

\* "size / distance < self.theta" on the squares
Legacy_use_approximation(body, node) ==
    LengthSquared(size(node.bounds)) * theta.den * theta.den
            * node.center_of_mass.d * node.center_of_mass.d
        < theta.num * theta.num
            * LengthSquared(VSub(VScale(body.position, node.center_of_mass.d),
                                 node.center_of_mass.n))

RECURSIVE Legacy_calculate_force(_, _)
RECURSIVE Legacy_force_children(_, _, _)
RECURSIVE Legacy_force_bodies(_, _)
Legacy_force_children(body, children, k) ==
    IF k > 8 THEN ForceZERO
    ELSE Legacy_calculate_force(body, children[k])
         \o Legacy_force_children(body, children, k + 1)

Legacy_force_bodies(body, bodies) ==
    IF bodies = <<>> THEN ForceZERO
    ELSE (IF Head(bodies).entity # body.entity
          THEN Legacy_calculate_direct_force(body, Head(bodies))
          ELSE ForceZERO)
         \o Legacy_force_bodies(body, Tail(bodies))

\* LegacyOctree::calculate_force(body, node, g)
Legacy_calculate_force(body, node) ==
    IF ~IsSome(node) THEN ForceZERO
    ELSE IF Unwrap(node).type = "External"
    THEN Legacy_force_bodies(body, Unwrap(node).bodies)
    ELSE IF Legacy_use_approximation(body, Unwrap(node))
    THEN Legacy_calculate_force_from_point(body, "node", Unwrap(node).center_of_mass,
                                           Unwrap(node).total_mass)
    ELSE Legacy_force_children(body, Unwrap(node).children, 1)

\* OctreeNode::collect_bounds
RECURSIVE collect_bounds(_, _, _)
RECURSIVE collect_bounds_of_children(_, _, _, _)
collect_bounds_of_children(children, k, current_depth, max_depth) ==
    IF k > 8 THEN <<>>
    ELSE (IF IsSome(children[k])
          THEN collect_bounds(Unwrap(children[k]), current_depth + 1, max_depth)
          ELSE <<>>)
         \o collect_bounds_of_children(children, k + 1, current_depth, max_depth)
collect_bounds(node, current_depth, max_depth) ==
    IF IsSome(max_depth) /\ current_depth > Unwrap(max_depth) THEN <<>>
    ELSE <<node.bounds>>
         \o (IF node.type = "Internal"
             THEN collect_bounds_of_children(node.children, 1, current_depth, max_depth)
             ELSE <<>>)

\* LegacyOctree::get_bounds
Legacy_get_bounds(octree, max_depth) ==
    IF IsSome(octree.root) THEN collect_bounds(Unwrap(octree.root), 0, max_depth)
    ELSE <<>>

\* OctreeNode::count_bodies and count_nodes
RECURSIVE count_bodies(_)
RECURSIVE count_nodes(_)
RECURSIVE count_in_children(_, _, _)
count_in_children(children, k, nodes) ==
    IF k > 8 THEN 0
    ELSE (IF IsSome(children[k])
          THEN IF nodes THEN count_nodes(Unwrap(children[k]))
               ELSE count_bodies(Unwrap(children[k]))
          ELSE 0)
         + count_in_children(children, k + 1, nodes)
count_bodies(node) ==
    IF node.type = "External" THEN Len(node.bodies)
    ELSE count_in_children(node.children, 1, FALSE)
count_nodes(node) ==
    IF node.type = "External" THEN 1
    ELSE 1 + count_in_children(node.children, 1, TRUE)

\* OctreeNode::total_mass and center_of_mass
total_mass(node) ==
    IF node.type = "Internal" THEN node.total_mass ELSE MassSum(node.bodies)
center_of_mass(node) ==
    IF node.type = "Internal" THEN node.center_of_mass
    ELSE IF node.bodies # <<>> /\ MassSum(node.bodies) > 0
    THEN Ratio(WeightedSum(node.bodies), MassSum(node.bodies))
    ELSE RZERO

\* LegacyOctree::octree_stats
Legacy_octree_stats(octree) ==
    IF IsSome(octree.root)
    THEN [node_count |-> count_nodes(Unwrap(octree.root)),
          body_count |-> count_bodies(Unwrap(octree.root)),
          total_mass |-> total_mass(Unwrap(octree.root)),
          center_of_mass |-> center_of_mass(Unwrap(octree.root)),
          force_calculation_count |-> octree.force_calculation_count]
    ELSE [node_count |-> 0, body_count |-> 0, total_mass |-> 0,
          center_of_mass |-> RZERO, force_calculation_count |-> 0]

\* ------------------------------------------------------- inputs
\* the bodies a caller hands to build: three positions of which the last two
\* share an octant of the first split; two massive bodies, two massless ones
P1 == <<0, 0, 0>>
P2 == <<Grid, Grid, 2 * Grid>>
P3 == <<2 * Grid, Grid, Grid>>
BodyKinds == { [position |-> P1, mass |-> 2], [position |-> P2, mass |-> 1],
               [position |-> P3, mass |-> 0], [position |-> P2, mass |-> 0] }
Thetas == { [num |-> 1, den |-> 1], [num |-> 2, den |-> 1] }
Thresholds == {1, 2}

\* a collection of n bodies; the body at position i has entity i
Collections(n) ==
    { [i \in 1..n |-> [position |-> ks[i].position, entity |-> i, mass |-> ks[i].mass]] :
        ks \in [1..n -> BodyKinds] }
Inputs == UNION { Collections(n) : n \in 0..MaxBodies }

Threads == 1..NumThreads

\* the bodies handed to calculate_force: the bodies of the last build, and one
\* body that is in no tree
Stranger == [position |-> P2, entity |-> 0, mass |-> 1]
QueryBodies == {built[i] : i \in 1..Len(built)} \cup {Stranger}

\* max_depth arguments of get_bounds
Depths == {None} \cup {Some(d) : d \in 0..MaxBoundsDepth}

\* ------------------------------------------------------- actions
\* OptimizedOctree::new(theta, ..).with_leaf_threshold(..) for a theta of thetas,
\* and LegacyOctree::new
Constructed(thetas) ==
    /\ root_index = None
    /\ node_pool = Pool_new
    /\ theta \in thetas
    /\ leaf_threshold \in Thresholds
    /\ force_calculation_count = 0
    /\ crashed = FALSE
    /\ built = <<>>
    /\ calls = [total |-> 0, on_tree |-> 0]
    /\ reported = 0
    /\ pc = [t \in Threads |-> "idle"]
    /\ query = [t \in Threads |-> None]
    /\ result = [t \in Threads |-> None]
    /\ legacy = LegacyOctree_new
    /\ legacy_built = <<>>
    /\ held = {}

Init == Constructed(Thetas)

\* &mut self or a single caller: the process runs and no reader is inside a call
Exclusive == ~crashed /\ \A t \in Threads : pc[t] = "idle"

\* the state build leaves: b is the value of build(...)
BuildReturns(b, bodies) ==
    IF b.ok
    THEN /\ root_index' = b.root_index
         /\ node_pool' = b.node_pool
         /\ built' = bodies
         /\ UNCHANGED crashed
    ELSE /\ crashed' = TRUE
         /\ UNCHANGED <<root_index, node_pool, built>>

\* OptimizedOctree::build(bodies)
Build(bodies) ==
    /\ Exclusive
    /\ \E b \in {build(root_index, node_pool, bodies)} : BuildReturns(b, bodies)
    /\ UNCHANGED <<theta, leaf_threshold, legacy, legacy_built, held, force_calculation_count,
                   calls, reported, pc, query, result>>

\* OptimizedOctree::clear_pool
ClearPool ==
    /\ Exclusive
    /\ node_pool' = Pool_clear(node_pool)
    /\ root_index' = None
    /\ UNCHANGED <<theta, leaf_threshold, legacy, legacy_built, held, force_calculation_count,
                   crashed, built, calls, reported, pc, query, result>>

\* OptimizedOctree::calculate_force(body, g), by a single caller
CalculateForce(body) ==
    /\ Exclusive
    /\ calls.total < MaxCalls
    /\ \E r \in {calculate_force(root_index, node_pool, force_calculation_count, body)} :
          force_calculation_count' = r.counter
    /\ calls' = [total |-> calls.total + 1,
                 on_tree |-> calls.on_tree + (IF IsSome(root_index) THEN 1 ELSE 0)]
    /\ UNCHANGED <<root_index, node_pool, theta, leaf_threshold, legacy, legacy_built, held,
                   crashed, built, reported, pc, query, result>>

\* OptimizedOctree::octree_stats; the caller keeps the count it was told
OctreeStats ==
    /\ Exclusive
    /\ reported' = octree_stats(root_index, node_pool,
                                force_calculation_count).force_calculation_count
    /\ UNCHANGED <<root_index, node_pool, theta, leaf_threshold, legacy, legacy_built, held,
                   force_calculation_count, crashed, built, calls, pc, query, result>>

\* OptimizedOctree::get_bounds(max_depth), root_node and pool_stats take &self,
\* return get_bounds(..), root_node_of(..) and Pool_stats(..), and write nothing
GetBounds(max_depth) ==
    /\ Exclusive
    /\ UNCHANGED vars

RootNode ==
    /\ Exclusive
    /\ UNCHANGED vars

PoolStats ==
    /\ Exclusive
    /\ UNCHANGED vars

\* the builder and the observers of the tree
Next ==
    \/ \E bodies \in Inputs : Build(bodies)
    \/ ClearPool
    \/ \E max_depth \in Depths : GetBounds(max_depth)
    \/ RootNode
    \/ PoolStats

Spec == Init /\ [][Next]_vars

\* a single caller that builds, queries forces and reads the statistics
\* (its collections: one order of the bodies for each choice of kinds)
KindRank(b) ==
    IF b.position = P1 THEN 1
    ELSE IF b.position = P2 /\ b.mass > 0 THEN 2
    ELSE IF b.position = P3 THEN 3
    ELSE 4
QueryInputs ==
    { c \in Inputs : \A i \in 1..Len(c) : \A j \in i..Len(c) :
                         KindRank(c[i]) <= KindRank(c[j]) }

NextQuery ==
    \/ \E bodies \in QueryInputs : Build(bodies)
    \/ ClearPool
    \/ \E body \in QueryBodies : CalculateForce(body)
    \/ OctreeStats
    \/ \E max_depth \in Depths : GetBounds(max_depth)

SpecQuery == Init /\ [][NextQuery]_vars

\* ------------------------------------------------------- edge inputs
\* a caller whose bodies sit on the diagonal of the box: the third one at the
\* centre of the box of the first two, with a negative mass
E1 == <<0, 0, 0>>
E2 == <<2 * Grid, 2 * Grid, 2 * Grid>>
E3 == <<Grid, Grid, Grid>>
EdgeKinds == { [position |-> E1, mass |-> 2], [position |-> E2, mass |-> 1],
               [position |-> E3, mass |-> -1] }
EdgeInputs ==
    UNION { { [i \in 1..n |-> [position |-> ks[i].position, entity |-> i,
                               mass |-> ks[i].mass]] : ks \in [1..n -> EdgeKinds] } :
            n \in 0..MaxBodies }

NextEdge ==
    \/ \E bodies \in EdgeInputs : Build(bodies)
    \/ ClearPool
    \/ \E body \in QueryBodies : CalculateForce(body)

SpecEdge == Init /\ [][NextEdge]_vars

\* ------------------------------------------------------- the legacy octree
\* The LegacyOctree of the same theta and leaf_threshold, driven alone.
LegacyKinds ==
    { [position |-> E1, mass |-> 2], [position |-> E3, mass |-> 1],
      [position |-> E2, mass |-> 0], [position |-> E1, mass |-> 0] }

LegacyInputs ==
    UNION { { [i \in 1..n |-> [position |-> ks[i].position, entity |-> i,
                               mass |-> ks[i].mass]] :
                ks \in [1..n -> LegacyKinds] } : n \in 0..MaxBodies }

LegacyQueryBodies == {legacy_built[i] : i \in 1..Len(legacy_built)} \cup {Stranger}

Optimized == <<root_index, node_pool, theta, leaf_threshold, force_calculation_count,
               built, calls, reported, pc, query, result, held>>

\* b is the value of Legacy_build(...)
LegacyBuildReturns(b, bodies) ==
    IF b.ok
    THEN legacy' = b.octree /\ legacy_built' = bodies /\ UNCHANGED crashed
    ELSE crashed' = TRUE /\ UNCHANGED <<legacy, legacy_built>>

LegacyBuild(bodies) ==
    /\ Exclusive
    /\ LegacyBuildReturns(Legacy_build(legacy, bodies), bodies)
    /\ UNCHANGED Optimized

LegacyClearPool ==
    /\ Exclusive
    /\ legacy' = [legacy EXCEPT !.octree_node_pool = LegacyPool_clear(@)]
    /\ UNCHANGED <<Optimized, crashed, legacy_built>>

\* one fetch_add for every contribution calculate_force_from_point returns
LegacyCalculateForce(body) ==
    /\ Exclusive
    /\ legacy.force_calculation_count < MaxCalls
    /\ legacy' = [legacy EXCEPT !.force_calculation_count =
                      @ + Len(Legacy_calculate_force(body, legacy.root))]
    /\ UNCHANGED <<Optimized, crashed, legacy_built>>

NextLegacy ==
    \/ \E bodies \in LegacyInputs : LegacyBuild(bodies)
    \/ LegacyClearPool
    \/ \E body \in LegacyQueryBodies : LegacyCalculateForce(body)

SpecLegacy == Init /\ [][NextLegacy]_vars

\* ------------------------------------------------------- both octrees
\* An OptimizedOctree and a LegacyOctree of the same parameters that are built
\* from the same collections, as test_correctness builds them.
PairReturns(b, lb, bodies) ==
    IF b.ok /\ lb.ok
    THEN /\ root_index' = b.root_index
         /\ node_pool' = b.node_pool
         /\ built' = bodies
         /\ legacy' = lb.octree
         /\ legacy_built' = bodies
         /\ UNCHANGED crashed
    ELSE /\ crashed' = TRUE
         /\ UNCHANGED <<root_index, node_pool, built, legacy, legacy_built>>

\* original_octree.build(bodies.clone()); optimized_octree.build(bodies.clone())
PairBuild(bodies) ==
    /\ Exclusive
    /\ \E b \in {build(root_index, node_pool, bodies)} :
       \E lb \in {Legacy_build(legacy, bodies)} : PairReturns(b, lb, bodies)
    /\ UNCHANGED <<theta, leaf_threshold, force_calculation_count, calls, reported,
                   pc, query, result, held>>

NextPair ==
    \/ \E bodies \in QueryInputs : PairBuild(bodies)
    \/ ClearPool
    \/ LegacyClearPool
    \/ \E max_depth \in Depths : GetBounds(max_depth)

SpecPair == Init /\ [][NextPair]_vars

\* ------------------------------------------------------- concurrent readers
\* calculate_force(body, g) called by thread t on &self, in the steps that the
\* steps of other threads can come between: the match on root_index, the
\* fetch_add, the traversal, the return. build and clear_pool take &mut self:
\* they run while no reader is inside a call.
Enter(t, body) ==
    /\ ~crashed
    /\ pc[t] = "idle"
    /\ calls.total < MaxCalls
    /\ query' = [query EXCEPT ![t] = Some(body)]
    /\ result' = [result EXCEPT ![t] = IF IsSome(root_index) THEN None
                                       ELSE Some(ForceZERO)]
    /\ pc' = [pc EXCEPT ![t] = IF IsSome(root_index) THEN "count" ELSE "done"]
    /\ calls' = [total |-> calls.total + 1,
                 on_tree |-> calls.on_tree + (IF IsSome(root_index) THEN 1 ELSE 0)]
    /\ UNCHANGED <<root_index, node_pool, theta, leaf_threshold, legacy, legacy_built, held,
                   force_calculation_count, crashed, built, reported>>

\* the increment as a plain load and store: the store of a reader that loaded
\* the counter before another reader's increment writes that increment away
\* (ConcurrentCallsCounted must tell the two apart)
CountPlain(t) ==
    /\ pc[t] = "count"
    /\ force_calculation_count' =
           IF \E u \in Threads \ {t} : pc[u] \in {"traverse", "done"}
           THEN force_calculation_count
           ELSE force_calculation_count + 1
    /\ pc' = [pc EXCEPT ![t] = "traverse"]
    /\ UNCHANGED <<root_index, node_pool, theta, leaf_threshold, legacy, legacy_built, held,
                   crashed, built, calls, reported, query, result>>

\* "self.force_calculation_count.fetch_add(1, Ordering::Relaxed)": one atomic step
Count(t) ==
    /\ pc[t] = "count"
    /\ force_calculation_count' = fetch_add(force_calculation_count)
    /\ pc' = [pc EXCEPT ![t] = "traverse"]
    /\ UNCHANGED <<root_index, node_pool, theta, leaf_threshold, legacy, legacy_built, held,
                   crashed, built, calls, reported, query, result>>

\* "self.calculate_force_recursive(body, root_index, g)": reads of the tree only
Traverse(t) ==
    /\ pc[t] = "traverse"
    /\ result' = [result EXCEPT ![t] =
                     Some(calculate_force_recursive(node_pool, Unwrap(query[t]),
                                                    Unwrap(root_index)))]
    /\ pc' = [pc EXCEPT ![t] = "done"]
    /\ UNCHANGED <<root_index, node_pool, theta, leaf_threshold, legacy, legacy_built, held,
                   force_calculation_count, crashed, built, calls, reported, query>>

\* the caller takes the force
Return(t) ==
    /\ pc[t] = "done"
    /\ pc' = [pc EXCEPT ![t] = "idle"]
    /\ query' = [query EXCEPT ![t] = None]
    /\ result' = [result EXCEPT ![t] = None]
    /\ UNCHANGED <<root_index, node_pool, theta, leaf_threshold, legacy, legacy_built, held,
                   force_calculation_count, crashed, built, calls, reported>>

NextConc ==
    \/ \E bodies \in QueryInputs : Build(bodies)
    \/ \E t \in Threads : \E body \in QueryBodies : Enter(t, body)
    \/ \E t \in Threads : Count(t)
    \/ \E t \in Threads : Traverse(t)
    \/ \E t \in Threads : Return(t)

SpecConc == Init /\ [][NextConc]_vars

\* ------------------------------------------------------- small theta
\* An octree of a smaller theta, and a query body whose distance from the
\* bodies grows as theta shrinks: 10 / theta along x.
FineThetas == { [num |-> 1, den |-> 2], [num |-> 1, den |-> 1] }
FarBody ==
    [position |-> <<(10 * Grid * theta.den) \div theta.num, 0, 0>>, entity |-> 0,
     mass |-> 1]

InitFine == Constructed(FineThetas)

NextFine ==
    \/ \E bodies \in QueryInputs : Build(bodies)
    \/ \E body \in QueryBodies \cup {FarBody} : CalculateForce(body)

SpecFine == InitFine /\ [][NextFine]_vars

\* ------------------------------------------------------- a caller that keeps what it is told
\* The observers called by one caller that keeps the value returned until it
\* takes it (Return): octree_stats, get_bounds, root_node and pool_stats take
\* &self and have no interior mutability to write through.
Caller == CHOOSE t \in Threads : TRUE

\* the state in which the call by t returned value
Returned(t, call, value) ==
    /\ ~crashed
    /\ pc[t] = "idle"
    /\ pc' = [pc EXCEPT ![t] = "done"]
    /\ query' = [query EXCEPT ![t] = Some(call)]
    /\ result' = [result EXCEPT ![t] = Some(value)]

\* an octree_stats that takes the counter away on reading it, as a
\* read-and-reset statistic would (ObserversChangeNothing must tell the two
\* apart)
ObserveOctreeStatsResetting(t) ==
    /\ Returned(t, <<"octree_stats">>,
                octree_stats(root_index, node_pool, force_calculation_count))
    /\ force_calculation_count' = 0
    /\ UNCHANGED <<root_index, node_pool, theta, leaf_threshold, legacy, legacy_built, held,
                   crashed, built, calls, reported>>

ObserveOctreeStats(t) ==
    /\ Returned(t, <<"octree_stats">>,
                octree_stats(root_index, node_pool, force_calculation_count))
    /\ UNCHANGED <<root_index, node_pool, theta, leaf_threshold, legacy, legacy_built, held,
                   force_calculation_count, crashed, built, calls, reported>>

ObserveGetBounds(t, max_depth) ==
    /\ Returned(t, <<"get_bounds", max_depth>>, get_bounds(root_index, node_pool, max_depth))
    /\ UNCHANGED <<root_index, node_pool, theta, leaf_threshold, legacy, legacy_built, held,
                   force_calculation_count, crashed, built, calls, reported>>

ObserveRootNode(t) ==
    /\ Returned(t, <<"root_node">>, root_node_of(root_index, node_pool))
    /\ UNCHANGED <<root_index, node_pool, theta, leaf_threshold, legacy, legacy_built, held,
                   force_calculation_count, crashed, built, calls, reported>>

ObservePoolStats(t) ==
    /\ Returned(t, <<"pool_stats">>, Pool_stats(node_pool))
    /\ UNCHANGED <<root_index, node_pool, theta, leaf_threshold, legacy, legacy_built, held,
                   force_calculation_count, crashed, built, calls, reported>>

NextObserve ==
    \/ \E bodies \in QueryInputs : Build(bodies)
    \/ ClearPool
    \/ \E body \in QueryBodies : CalculateForce(body)
    \/ ObserveOctreeStats(Caller)
    \/ \E max_depth \in Depths : ObserveGetBounds(Caller, max_depth)
    \/ ObserveRootNode(Caller)
    \/ ObservePoolStats(Caller)
    \/ Return(Caller)

SpecObserve == Init /\ [][NextObserve]_vars

\* octree.calculate_force(body, octree.root.as_ref(), g) by a caller that keeps
\* the force, as test_octree_stats calls it
LegacyForceCall(body) ==
    /\ Exclusive
    /\ legacy.force_calculation_count < MaxCalls
    /\ legacy' = [legacy EXCEPT !.force_calculation_count =
                      @ + Len(Legacy_calculate_force(body, legacy.root))]
    /\ query' = [query EXCEPT ![Caller] = Some(<<"calculate_force", body>>)]
    /\ result' = [result EXCEPT ![Caller] = Legacy_calculate_force(body, legacy.root)]
    /\ UNCHANGED <<root_index, node_pool, theta, leaf_threshold, force_calculation_count,
                   built, calls, reported, pc, held, crashed, legacy_built>>

\* collections of bodies at different places: two closer to each other than
\* min_distance (E1, E3), two farther apart (E1, E2)
CallKinds ==
    { [position |-> E1, mass |-> 2], [position |-> E3, mass |-> 1],
      [position |-> E2, mass |-> 0] }

CallInputs ==
    UNION { { [i \in 1..n |-> [position |-> ks[i].position, entity |-> i,
                               mass |-> ks[i].mass]] :
                ks \in {f \in [1..n -> CallKinds] :
                           \A i, j \in 1..n : f[i] = f[j] => i = j} } : n \in 0..MaxBodies }

NextLegacyCalls ==
    \/ \E bodies \in CallInputs : LegacyBuild(bodies)
    \/ \E body \in LegacyQueryBodies : LegacyForceCall(body)

SpecLegacyCalls == Init /\ [][NextLegacyCalls]_vars

\* ------------------------------------------------------- the node pool alone
\* An OptimizedOctreeNodePool driven by a user of its own, who may also hand
\* deallocate_node an index that is out of range or free already. query and
\* result of the caller keep the last call and what it returned.
PoolNodes ==
    { add_body(new_external(Aabb3d_new(P1, P2)), 1, P1, 2),
      set_child_index(new_internal(Aabb3d_new(P1, P3), RZERO, 0), 0, Some(1)) }

\* the caller's record of the call and of its value
Called(call, value) ==
    /\ Exclusive
    /\ query' = [query EXCEPT ![Caller] = Some(call)]
    /\ result' = [result EXCEPT ![Caller] = value]
    /\ UNCHANGED <<root_index, theta, leaf_threshold, legacy, legacy_built,
                   force_calculation_count, crashed, built, calls, reported, pc>>

\* the pool and the indices held after "let index = allocate_node(node)"
Allocated(a) ==
    /\ node_pool' = a.pool
    /\ held' = held \cup {a.index}

\* OptimizedOctreeNodePool::allocate_node(node)
PoolAllocate(node) ==
    /\ node_pool.free_indices # <<>> \/ Len(node_pool.nodes) < MaxSlots
    /\ \E a \in {allocate_node(node_pool, node)} :
          Allocated(a) /\ Called(<<"allocate_node", node>>, Some(a.index))

\* OptimizedOctreeNodePool::deallocate_node(index)
PoolDeallocate(index) ==
    /\ Len(node_pool.free_indices) <= MaxSlots
    /\ node_pool' = deallocate_node(node_pool, index)
    /\ held' = held \ {index}
    /\ Called(<<"deallocate_node", index>>, None)

\* OptimizedOctreeNodePool::clear
PoolClear ==
    /\ node_pool' = Pool_clear(node_pool)
    /\ held' = {}
    /\ Called(<<"clear">>, None)

NextPool ==
    \/ \E node \in PoolNodes : PoolAllocate(node)
    \/ \E index \in 0..MaxSlots : PoolDeallocate(index)
    \/ PoolClear

SpecPool == Init /\ [][NextPool]_vars

\* ------------------------------------------------------- get_bounds of any depth
\* the largest d for which 8^d fits a usize
MaxFitDepth == (UsizeBits - 1) \div 3

\* max_depth arguments up to the first one whose estimate does not fit
DeepDepths ==
    {None} \cup {Some(d) : d \in (0..MaxBoundsDepth) \cup {MaxFitDepth, MaxFitDepth + 1}}

\* get_bounds(max_depth) with its capacity estimate, in a build with or without
\* overflow checks: a panic ends the caller, otherwise the bounds come back
\* (result also keeps the estimate and whether it overflowed)
GetBoundsEstimating(max_depth, overflow_checks) ==
    /\ Exclusive
    /\ query' = [query EXCEPT ![Caller] = Some(<<"get_bounds", max_depth>>)]
    /\ IF estimated_capacity(max_depth, overflow_checks).panicked
       THEN crashed' = TRUE /\ UNCHANGED result
       ELSE /\ UNCHANGED crashed
            /\ result' = [result EXCEPT ![Caller] =
                   [bounds |-> get_bounds(root_index, node_pool, max_depth),
                    capacity |-> estimated_capacity(max_depth, overflow_checks).capacity,
                    overflowed |->
                        estimated_capacity(max_depth, overflow_checks).overflowed]]
    /\ UNCHANGED <<root_index, node_pool, theta, leaf_threshold, legacy, legacy_built, held,
                   force_calculation_count, built, calls, reported, pc>>

\* builds of bodies at different places (such builds always return), then
\* get_bounds of any depth
NextBounds ==
    \/ \E bodies \in CallInputs : Build(bodies)
    \/ \E max_depth \in DeepDepths, overflow_checks \in BOOLEAN :
           GetBoundsEstimating(max_depth, overflow_checks)

SpecBounds == Init /\ [][NextBounds]_vars

\* ------------------------------------------------------- the tree that is built
\* the nodes reachable from node_index through children_indices, parents first
RECURSIVE Subtree(_, _)
RECURSIVE SubtreeOfChildren(_, _, _)
SubtreeOfChildren(pool, children_indices, k) ==
    IF k > 8 THEN <<>>
    ELSE (IF IsSome(children_indices[k])
          THEN Subtree(pool, Unwrap(children_indices[k]))
          ELSE <<>>)
         \o SubtreeOfChildren(pool, children_indices, k + 1)
Subtree(pool, node_index) ==
    IF ~IsSome(get_node(pool, node_index)) THEN <<>>
    ELSE IF is_internal(pool.nodes[node_index + 1])
    THEN <<node_index>>
         \o SubtreeOfChildren(pool, pool.nodes[node_index + 1].cold_data.children_indices, 1)
    ELSE <<node_index>>

\* the bodies stored in the leaves below node_index, one entry per stored copy
RECURSIVE LeafBodiesOf(_, _)
LeafBodiesOf(pool, node_indices) ==
    IF node_indices = <<>> THEN <<>>
    ELSE (IF is_external(pool.nodes[Head(node_indices) + 1])
          THEN Bodies_iter(pool.nodes[Head(node_indices) + 1].bodies)
          ELSE <<>>)
         \o LeafBodiesOf(pool, Tail(node_indices))
LeafBodies(pool, node_index) == LeafBodiesOf(pool, Subtree(pool, node_index))

\* the nodes and the stored bodies of the current tree
TreeNodes == IF IsSome(root_index) THEN Subtree(node_pool, Unwrap(root_index)) ELSE <<>>
TreeBodies == LeafBodiesOf(node_pool, TreeNodes)
Stats == octree_stats(root_index, node_pool, force_calculation_count)

\* ------------------------------------------------------- claims on build

\* C1: after build on a non-empty collection, every input body is stored in
\* exactly one leaf reachable from the root, no other body is stored, and
\* octree_stats().body_count is the length of the input.
BodyConservation ==
    IsSome(root_index) =>
        /\ Len(TreeBodies) = Len(built)
        /\ \A i \in 1..Len(built) :
               Cardinality({k \in 1..Len(TreeBodies) : TreeBodies[k] = built[i]}) = 1
        /\ Stats.body_count = Len(built)

\* C1 happens: a tree of several leaves holds a three-body collection
BodyConservationWitness ==
    /\ IsSome(root_index)
    /\ Len(built) = 3
    /\ Stats.node_count >= 4

\* C2: build returns for every finite body collection, coincident bodies
\* included: no call of build is left recursing for ever.
BuildTerminates == ~crashed

\* C3: every node reachable from the root carries the sum of the masses of the
\* bodies below it, their count, and their mass-weighted mean position
\* (the origin when that mass is not positive).
AggregatesMatchSubtree ==
    \A k \in 1..Len(TreeNodes) :
        \E node \in {node_pool.nodes[TreeNodes[k] + 1]} :
        \E below \in {LeafBodies(node_pool, TreeNodes[k])} :
            /\ node.hot_data.total_mass = MassSum(below)
            /\ body_count(node) = Len(below)
            /\ IF MassSum(below) > 0
               THEN /\ node.hot_data.center_of_mass.d > 0
                    /\ VScale(node.hot_data.center_of_mass.n, MassSum(below))
                           = VScale(WeightedSum(below), node.hot_data.center_of_mass.d)
               ELSE node.hot_data.center_of_mass = RZERO

\* C3 happens: an internal node below the root aggregates two bodies of
\* different mass, and the root three
AggregatesWitness ==
    /\ Len(TreeNodes) >= 4
    /\ \E k \in 2..Len(TreeNodes) :
           /\ is_internal(node_pool.nodes[TreeNodes[k] + 1])
           /\ node_pool.nodes[TreeNodes[k] + 1].hot_data.total_mass = 1
           /\ body_count(node_pool.nodes[TreeNodes[k] + 1]) = 2
    /\ Stats.total_mass = 3

\* C4: every reachable leaf holds between 1 and leaf_threshold bodies; every
\* reachable internal node has more than leaf_threshold bodies below it and at
\* least one non-empty child.
LeafThresholdRespected ==
    \A k \in 1..Len(TreeNodes) :
        \E node \in {node_pool.nodes[TreeNodes[k] + 1]} :
            IF is_external(node)
            THEN Bodies_len(node.bodies) >= 1 /\ Bodies_len(node.bodies) <= leaf_threshold
            ELSE /\ Len(LeafBodies(node_pool, TreeNodes[k])) > leaf_threshold
                 /\ \E c \in 1..8 :
                        /\ IsSome(node.cold_data.children_indices[c])
                        /\ LeafBodies(node_pool,
                               Unwrap(node.cold_data.children_indices[c])) # <<>>

\* C4 happens: a tree with a full leaf (leaf_threshold = 2 bodies) under an
\* internal root
LeafThresholdWitness ==
    /\ leaf_threshold = 2
    /\ Len(TreeNodes) >= 2
    /\ \E k \in 2..Len(TreeNodes) :
           /\ is_external(node_pool.nodes[TreeNodes[k] + 1])
           /\ Bodies_len(node_pool.nodes[TreeNodes[k] + 1].bodies) = 2

\* the statistics of a tree, without the counter
TreeStats(root, pool) == octree_stats(root, pool, 0)

\* C10: whatever was built before on this octree, the tree of the last build
\* has the node_count, body_count, total_mass and center_of_mass of a fresh
\* octree built once from the same bodies.
RebuildMatchesFresh ==
    IsSome(root_index) =>
        \E fresh \in {build(None, Pool_new, built)} :
            /\ fresh.ok
            /\ TreeStats(root_index, node_pool)
                   = TreeStats(fresh.root_index, fresh.node_pool)

\* C10 happens: the pool that holds the tree was kept from an earlier build
\* of a larger collection
RebuildWitness ==
    /\ IsSome(root_index)
    /\ Stats.body_count >= 1
    /\ node_pool.capacity > estimate_node_capacity(Len(built))

\* ------------------------------------------------------- claims on the queries
\* the force calculate_force returns for body on the current tree
ForceOn(body) ==
    calculate_force(root_index, node_pool, force_calculation_count, body).force

\* C5, as stated: every call of calculate_force adds exactly 1 to
\* force_calculation_count, a call on an empty tree included.
CounterCountsEveryCall == force_calculation_count = calls.total

\* C5, amended: every call of calculate_force on a tree whose root is present
\* adds exactly 1 to force_calculation_count, however many contributions it
\* sums; a call on an empty tree leaves the counter as it is.
CounterCountsCallsOnTree == force_calculation_count = calls.on_tree

\* C5 happens: one call was made on a tree and one on an empty tree
CounterWitness ==
    /\ calls.on_tree >= 1
    /\ calls.total > calls.on_tree

\* C6, as stated: octree_stats reports the current value of the counter, so
\* that no call reports less than an earlier call did.
ReportedCountIsCurrent ==
    /\ Stats.force_calculation_count = force_calculation_count
    /\ reported <= Stats.force_calculation_count

\* C6, amended: octree_stats reports the current value of the counter while
\* the root is present and 0 while the tree is empty; no call reports more than
\* the counter holds.
ReportedCountOfTree ==
    /\ Stats.force_calculation_count
           = (IF IsSome(root_index) THEN force_calculation_count ELSE 0)
    /\ reported <= force_calculation_count

\* C6 happens: octree_stats reported a positive count and the tree was
\* emptied afterwards
ReportedCountWitness ==
    /\ reported >= 1
    /\ ~IsSome(root_index)

\* body b is stored below node_index
ContainsBody(node_index, b) ==
    \E k \in 1..Len(LeafBodies(node_pool, node_index)) :
        LeafBodies(node_pool, node_index)[k].entity = b.entity

\* no leaf contribution of force comes from b
NoDirectSelf(force, b) ==
    \A k \in 1..Len(force) : force[k].kind = "body" => force[k].source # b.entity

\* no aggregate contribution of force comes from a node that holds b
NoAggregateSelf(force, b) ==
    \A k \in 1..Len(force) : force[k].kind = "node" => ~ContainsBody(force[k].source, b)

\* no aggregate contribution of force comes from a node of positive total
\* mass that holds b
NoMassiveAggregateSelf(force, b) ==
    \A k \in 1..Len(force) :
        (force[k].kind = "node" /\ force[k].mass > 0) => ~ContainsBody(force[k].source, b)

\* C8, as stated: for every theta > 0 and every stored body b, the force on b
\* has no contribution from b, neither from its leaf nor from the aggregate of
\* a node that holds b; on a single-body tree it is the zero vector.
SelfExclusion ==
    IsSome(root_index) =>
        \A i \in 1..Len(built) :
            /\ NoDirectSelf(ForceOn(built[i]), built[i])
            /\ NoAggregateSelf(ForceOn(built[i]), built[i])
            /\ Len(built) = 1 => ForceOn(built[i]) = ForceZERO

\* C8, amended: for every theta > 0 the force on a stored body b has no leaf
\* contribution from b, and is the zero vector on a single-body tree; for
\* theta <= 1 and masses that are not negative, no node of positive total mass
\* that holds b is replaced by its aggregate.
SelfExclusionUpToOne ==
    IsSome(root_index) =>
        \A i \in 1..Len(built) :
            /\ NoDirectSelf(ForceOn(built[i]), built[i])
            /\ theta.num <= theta.den =>
                   NoMassiveAggregateSelf(ForceOn(built[i]), built[i])
            /\ Len(built) = 1 => ForceOn(built[i]) = ForceZERO

\* C8 happens: with theta = 1 a stored body was queried, shares its leaf with
\* another body, and a node that does not hold it is replaced by its aggregate
SelfExclusionWitness ==
    /\ IsSome(root_index)
    /\ theta.num = theta.den
    /\ calls.on_tree >= 1
    /\ \E i \in 1..Len(built) :
           \E k \in 1..Len(ForceOn(built[i])) :
               /\ ForceOn(built[i])[k].kind = "node"
               /\ ForceOn(built[i])[k].mass > 0
    /\ \E i \in 1..Len(built) :
           \E k \in 1..Len(ForceOn(built[i])) : ForceOn(built[i])[k].kind = "body"

\* the bodies an empty tree is asked about
ProbeBodies ==
    {Stranger} \cup
    { [position |-> kind.position, entity |-> e, mass |-> kind.mass] :
          kind \in BodyKinds, e \in 1..MaxBodies }

ConcurrentCallsCounted ==
    /\ force_calculation_count
           = calls.on_tree - Cardinality({t \in Threads : pc[t] = "count"})
    /\ \A t \in Threads :
           pc[t] = "done" => result[t] = Some(ForceOn(Unwrap(query[t])))

\* C7 happens: two calls that were inside calculate_force together have both
\* counted and traversed a tree of several bodies
ConcurrentCallsWitness ==
    /\ IsSome(root_index)
    /\ Len(built) >= 2
    /\ Cardinality({t \in Threads : pc[t] = "done" /\ result[t] # Some(ForceZERO)}) >= 2
    /\ force_calculation_count >= 2

\* ------------------------------------------------------- claims on the root box
\* the bounds of the root of the current tree (root_index present)
RootBounds == node_pool.nodes[Unwrap(root_index) + 1].cold_data.bounds

\* C11: after build on a non-empty collection every body lies strictly inside
\* the root bounds on every axis, and the root box has a non-zero extent on
\* every axis, also for a single body, for coincident bodies and for bodies
\* that share one coordinate.
RootBoundsStrictlyContain ==
    IsSome(root_index) =>
        \A axis \in 1..3 :
            /\ RootBounds.min[axis] < RootBounds.max[axis]
            /\ \A i \in 1..Len(built) :
                   /\ RootBounds.min[axis] < built[i].position[axis]
                   /\ built[i].position[axis] < RootBounds.max[axis]

\* ------------------------------------------------------- claims on masses
\* the bodies of positive mass among bodies
Massive(bodies) == SelectSeq(bodies, LAMBDA b : b.mass > 0)

\* the contribution c to the force on body is the zero vector: the kernel is
\* g * body.mass * c.mass / distance^2 along c.position - body.position
AddsZero(body, c) ==
    \/ body.mass * c.mass = 0
    \/ VScale(body.position, c.position.d) = c.position.n

\* C12: a stored body of zero or negative mass adds zero to the force on every
\* other body, and zero weight to total_mass and center_of_mass of every node
\* that holds it: the aggregates are those of the bodies of positive mass.
MasslessAddNothing ==
    IsSome(root_index) =>
        /\ \A i \in 1..Len(built) :
               \A k \in 1..Len(ForceOn(built[i])) :
                   (ForceOn(built[i])[k].kind = "body" /\ ForceOn(built[i])[k].mass <= 0)
                       => AddsZero(built[i], ForceOn(built[i])[k])
        /\ \A k \in 1..Len(TreeNodes) :
               \E node \in {node_pool.nodes[TreeNodes[k] + 1]} :
               \E heavy \in {Massive(LeafBodies(node_pool, TreeNodes[k]))} :
                   /\ node.hot_data.total_mass = MassSum(heavy)
                   /\ VScale(node.hot_data.center_of_mass.n, MassSum(heavy))
                          = VScale(WeightedSum(heavy), node.hot_data.center_of_mass.d)

\* ------------------------------------------------------- claims on the legacy octree
\* The contributions of a force that are not zero: [point, mass, clamped],
\* clamped saying that the distance was raised to min_distance (clamps) and
\* the contribution is therefore not the inverse-square one.
NonZero(body, force) == SelectSeq(force, LAMBDA c : ~AddsZero(body, c))
Effective(body, force, clamps) ==
    [k \in 1..Len(NonZero(body, force)) |->
        [point |-> NonZero(body, force)[k].position,
         mass |-> NonZero(body, force)[k].mass,
         clamped |-> clamps /\ within_min_distance(body.position,
                                                   NonZero(body, force)[k].position)]]
SameContribution(a, b) ==
    /\ a.mass = b.mass
    /\ a.clamped = b.clamped
    /\ VScale(a.point.n, b.point.d) = VScale(b.point.n, a.point.d)
Occurrences(f, x) == Cardinality({k \in 1..Len(f) : SameContribution(f[k], x)})
\* the two forces sum the same contributions
SameForce(f, g) ==
    /\ \A k \in 1..Len(f) : Occurrences(f, f[k]) = Occurrences(g, f[k])
    /\ \A k \in 1..Len(g) : Occurrences(f, g[k]) = Occurrences(g, g[k])

LegacyForceOn(body) == Effective(body, Legacy_calculate_force(body, legacy.root), FALSE)
OptimizedForceOn(b, body) ==
    Effective(body, calculate_force(b.root_index, b.node_pool, 0, body).force, TRUE)

\* C13: for every query body, LegacyOctree::calculate_force and
\* OptimizedOctree::calculate_force, on trees built from the same collection
\* with the same theta, min_distance and leaf_threshold, return the same force.
LegacyMatchesOptimized ==
    IsSome(legacy.root) =>
        \E b \in {build(None, Pool_new, legacy_built)} :
            b.ok => \A body \in LegacyQueryBodies :
                        SameForce(LegacyForceOn(body), OptimizedForceOn(b, body))

\* ------------------------------------------------------- claims on get_bounds
\* C14, as stated: in every state of either octree, get_bounds(Some(0)) returns
\* exactly one bounding volume.
RootBoundsAlways ==
    /\ Len(get_bounds(root_index, node_pool, Some(0))) = 1
    /\ Len(Legacy_get_bounds(legacy, Some(0))) = 1

\* C14: get_bounds(Some(0)) returns exactly one bounding volume, the root's,
\* whenever the octree holds a tree, and the empty list when it holds none;
\* for the OptimizedOctree and for the LegacyOctree.
RootBoundsWhenBuilt ==
    /\ get_bounds(root_index, node_pool, Some(0)) =
           (IF IsSome(root_index) THEN <<RootBounds>> ELSE <<>>)
    /\ Legacy_get_bounds(legacy, Some(0)) =
           (IF IsSome(legacy.root) THEN <<Unwrap(legacy.root).bounds>> ELSE <<>>)

\* both octrees hold a tree of several nodes
RootBoundsWitness ==
    /\ IsSome(root_index)
    /\ IsSome(legacy.root)
    /\ Len(get_bounds(root_index, node_pool, None)) > 1
    /\ Len(Legacy_get_bounds(legacy, None)) > 1

\* the reachable nodes at depth k (the root is at depth 0)
RECURSIVE Level(_)
Level(k) ==
    IF k = 0 THEN (IF IsSome(root_index) THEN {Unwrap(root_index)} ELSE {})
    ELSE { Unwrap(node_pool.nodes[n + 1].cold_data.children_indices[i]) :
             <<n, i>> \in { p \in Level(k - 1) \X (1..8) :
                 IsSome(node_pool.nodes[p[1] + 1].cold_data.children_indices[p[2]]) } }
UpToLevel(d) == UNION { Level(k) : k \in 0..d }
BoundsOf(n) == node_pool.nodes[n + 1].cold_data.bounds
BoundsTo(max_depth) == get_bounds(root_index, node_pool, max_depth)

Bit(index, axis) == (index \div <<1, 2, 4>>[axis]) % 2
InternalNodes == {n \in {TreeNodes[k] : k \in 1..Len(TreeNodes)} :
                      is_internal(node_pool.nodes[n + 1])}
PresentSlots(n) ==
    {i \in 1..8 : IsSome(node_pool.nodes[n + 1].cold_data.children_indices[i])}
BodiesUnder(n, i) ==
    LeafBodies(node_pool, Unwrap(node_pool.nodes[n + 1].cold_data.children_indices[i]))
EdgePositions == {E1, E2, E3}

\* C16: determine_child_index gives every position one child in 0..7 whose bit
\* for an axis is 1 exactly when the coordinate is >= the centre of the node
\* (x bit 0, y bit 1, z bit 2); a position at the centre gets child 7; and in
\* every tree that is built, rebuilt or not, each body lies below the child
\* the rule gives it.
ChildIndexRule ==
    \A n \in InternalNodes :
        /\ \A position \in EdgePositions :
              /\ determine_child_index(position, BoundsOf(n)) \in 0..7
              /\ \A axis \in 1..3 :
                     Bit(determine_child_index(position, BoundsOf(n)), axis) = 1
                         <=> position[axis] >= center(BoundsOf(n))[axis]
              /\ position = center(BoundsOf(n)) =>
                     determine_child_index(position, BoundsOf(n)) = 7
        /\ \A i \in PresentSlots(n) : \A k \in 1..Len(BodiesUnder(n, i)) :
              /\ determine_child_index(BodiesUnder(n, i)[k].position, BoundsOf(n)) = i - 1
              /\ \A axis \in 1..3 :
                     Bit(i - 1, axis) = 1
                         <=> BodiesUnder(n, i)[k].position[axis] >= center(BoundsOf(n))[axis]

\* a body exactly at the centre of an internal node, stored below child 7
ChildIndexWitness ==
    \E n \in InternalNodes :
        /\ 8 \in PresentSlots(n)
        /\ \E k \in 1..Len(BodiesUnder(n, 8)) :
               BodiesUnder(n, 8)[k].position = center(BoundsOf(n))

\* ------------------------------------------------------- claims on the root
RootOf == node_pool.nodes[Unwrap(root_index) + 1]

\* C17: after a build of n >= 1 bodies the root is an External leaf holding all
\* n bodies if n <= leaf_threshold, and an Internal node if not; in the
\* OptimizedOctree and in the LegacyOctree.
RootKind ==
    /\ IsSome(root_index) =>
          /\ Len(built) >= 1
          /\ is_external(RootOf) <=> Len(built) <= leaf_threshold
          /\ is_internal(RootOf) <=> Len(built) > leaf_threshold
          /\ is_external(RootOf) => Bodies_iter(RootOf.bodies) = built
    /\ IsSome(legacy.root) =>
          /\ Len(legacy_built) >= 1
          /\ Unwrap(legacy.root).type = "External" <=> Len(legacy_built) <= leaf_threshold
          /\ Unwrap(legacy.root).type = "Internal" <=> Len(legacy_built) > leaf_threshold
          /\ Unwrap(legacy.root).type = "External" =>
                 Unwrap(legacy.root).bodies = legacy_built

\* a build of exactly leaf_threshold bodies (a leaf root) ...
RootLeafWitness ==
    /\ IsSome(root_index) /\ IsSome(legacy.root)
    /\ Len(built) = leaf_threshold /\ Len(legacy_built) = leaf_threshold
    /\ leaf_threshold > 1
    /\ is_external(RootOf)
\* ... and one of leaf_threshold + 1 bodies (an internal root)
RootInternalWitness ==
    /\ IsSome(root_index) /\ IsSome(legacy.root)
    /\ Len(built) = leaf_threshold + 1 /\ Len(legacy_built) = leaf_threshold + 1
    /\ is_internal(RootOf)

\* ------------------------------------------------------- claims on the read-only calls
\* the fields of the OptimizedOctree
OctreeFields == <<root_index, node_pool, theta, leaf_threshold, force_calculation_count>>
TreeFields == <<root_index, node_pool, theta, leaf_threshold>>

\* C18: a call of octree_stats, get_bounds, root_node or pool_stats (a step in
\* which the caller receives its value) leaves every field of the octree as it
\* was, and a call of calculate_force (a step that counts a call) leaves every
\* field but force_calculation_count as it was.
ObserversChangeNothing ==
    [][ /\ (\E t \in Threads : pc[t] = "idle" /\ pc'[t] = "done") => UNCHANGED OctreeFields
        /\ calls' # calls => UNCHANGED TreeFields ]_vars

\* the caller holds what an observer returned for a tree on which forces were
\* counted
ObserversWitness ==
    /\ pc[Caller] = "done"
    /\ IsSome(root_index)
    /\ force_calculation_count > 0
    /\ Unwrap(query[Caller])[1] = "octree_stats"

\* ------------------------------------------------------- claims on the input order
\* The tree below node_index without its arena indices: the bounds of the
\* node, the set of bodies of a leaf, and the subtree in each child slot.
RECURSIVE Shape(_, _)
Shape(pool, node_index) ==
    [bounds |-> pool.nodes[node_index + 1].cold_data.bounds,
     leaf |-> is_external(pool.nodes[node_index + 1]),
     bodies |-> IF is_external(pool.nodes[node_index + 1])
                THEN {Bodies_iter(pool.nodes[node_index + 1].bodies)[k] :
                        k \in 1..Len(Bodies_iter(pool.nodes[node_index + 1].bodies))}
                ELSE {},
     children |-> [i \in 1..8 |->
        IF is_internal(pool.nodes[node_index + 1])
           /\ IsSome(pool.nodes[node_index + 1].cold_data.children_indices[i])
        THEN Some(Shape(pool,
                 Unwrap(pool.nodes[node_index + 1].cold_data.children_indices[i])))
        ELSE None]]

Orders(n) == {f \in [1..n -> 1..n] : \A i, j \in 1..n : f[i] = f[j] => i = j}
Permuted(bodies, f) == [i \in 1..Len(bodies) |-> bodies[f[i]]]
FreshBuild(bodies) == build(None, Pool_new, bodies)

\* C19: the tree built from a collection is the tree built from any
\* permutation of it: same shape, same bounds per node, same set of bodies per
\* leaf, same node_count and body_count.
OrderIndependent ==
    IsSome(root_index) =>
        \A f \in Orders(Len(built)) :
            \E b \in {FreshBuild(Permuted(built, f))} :
                /\ b.ok
                /\ IsSome(b.root_index)
                /\ Shape(b.node_pool, Unwrap(b.root_index))
                       = Shape(node_pool, Unwrap(root_index))
                /\ TreeStats(b.root_index, b.node_pool).node_count = Stats.node_count
                /\ TreeStats(b.root_index, b.node_pool).body_count = Stats.body_count

\* three bodies, an internal root, and an order of the bodies that fills the
\* arena differently
OrderWitness ==
    /\ IsSome(root_index)
    /\ Len(built) = 3
    /\ is_internal(RootOf)
    /\ \E f \in Orders(3) :
           FreshBuild(Permuted(built, f)).node_pool # FreshBuild(built).node_pool

\* ------------------------------------------------------- claims on theta
NodeAt(n) == node_pool.nodes[n + 1]
\* no reachable internal node satisfies node_size / distance_to_center < theta
NoApproximation(body) == \A n \in InternalNodes : ~use_approximation(body, NodeAt(n))

\* the force on body is the direct sum: one contribution of each stored body
\* of another identity, and nothing else
IsDirectSum(body) ==
    /\ \A k \in 1..Len(ForceOn(body)) :
          /\ ForceOn(body)[k].kind = "body"
          /\ ForceOn(body)[k].source \in 1..Len(built)
          /\ ForceOn(body)[k].source # body.entity
          /\ ForceOn(body)[k].position =
                 [n |-> built[ForceOn(body)[k].source].position, d |-> 1]
          /\ ForceOn(body)[k].mass = built[ForceOn(body)[k].source].mass
    /\ \A i \in 1..Len(built) :
          Cardinality({k \in 1..Len(ForceOn(body)) : ForceOn(body)[k].source = i})
              = (IF built[i].entity # body.entity THEN 1 ELSE 0)

\* theta < s / d for the size s of every reachable internal node and the
\* distance d of every query body of the collection (QueryBodies) from the
\* centre of mass of every reachable internal node: theta is below the least
\* size over the greatest distance
BelowThetaBound ==
    \A n \in InternalNodes : \A m \in InternalNodes : \A body \in QueryBodies :
        theta.num * theta.num
            * LengthSquared(VSub(VScale(body.position, NodeAt(m).hot_data.center_of_mass.d),
                                 NodeAt(m).hot_data.center_of_mass.n))
          < theta.den * theta.den * LengthSquared(NodeAt(n).hot_data.bounds_size)
                * NodeAt(m).hot_data.center_of_mass.d * NodeAt(m).hot_data.center_of_mass.d

\* C20, as stated: below the bound of the collection the traversal opens every
\* node for every query body, wherever the query body is.
ExactForEveryQuery ==
    (IsSome(root_index) /\ BelowThetaBound) =>
        \A body \in QueryBodies \cup {FarBody} : NoApproximation(body) /\ IsDirectSum(body)

\* C20: for any query body, if no reachable internal node satisfies
\* node_size / distance_to_center < theta then calculate_force returns the
\* direct sum over the stored bodies of another identity; every reachable
\* internal node has a size above zero, so the bound s / d of a collection is
\* above zero, and for theta below it this is the case for every query body
\* that is one of the collection (or lies where one of them lies).
ExactBelowThetaBound ==
    IsSome(root_index) =>
        /\ \A body \in QueryBodies \cup {FarBody} :
               NoApproximation(body) => IsDirectSum(body)
        /\ \A n \in InternalNodes : LengthSquared(NodeAt(n).hot_data.bounds_size) > 0
        /\ BelowThetaBound => \A body \in QueryBodies : NoApproximation(body)

\* three bodies in a tree of two internal nodes, theta below the bound of the
\* collection, and a force taken from the tree
ExactWitness ==
    /\ IsSome(root_index)
    /\ Len(built) = 3
    /\ Cardinality(InternalNodes) >= 2
    /\ BelowThetaBound
    /\ calls.on_tree > 0

\* ------------------------------------------------------- claims on the node pool
\* the last call of the pool's user was op
LastCallIs(op) == IsSome(query[Caller]) /\ Unwrap(query[Caller])[1] = op
Slots(pool) == 0..(Len(pool.nodes) - 1)
Last(s) == s[Len(s)]
Front(s) == SubSeq(s, 1, Len(s) - 1)

\* what allocate_node(node) returning index did to the pool
AllocateDid(node, index) ==
    /\ get_node(node_pool', index) = Some(node)
    /\ IF node_pool.free_indices # <<>>
       THEN /\ index = Last(node_pool.free_indices)
            /\ node_pool'.free_indices = Front(node_pool.free_indices)
            /\ Len(node_pool'.nodes) = Len(node_pool.nodes)
       ELSE /\ index = Len(node_pool.nodes)
            /\ node_pool'.free_indices = <<>>
            /\ Len(node_pool'.nodes) = Len(node_pool.nodes) + 1
    /\ \A j \in Slots(node_pool) \ {index} :
           node_pool'.nodes[j + 1] = node_pool.nodes[j + 1]

\* C21: allocate_node(node) returns an index i with get_node(i) the node just
\* stored; with a free list that is not empty i is the index freed last and
\* the storage keeps its length, otherwise i is the length the storage had and
\* the storage grows by one; every other slot keeps its contents.
AllocateContract ==
    [][ LastCallIs("allocate_node")' =>
            AllocateDid(Unwrap(query'[Caller])[2], Unwrap(result'[Caller])) ]_vars

\* an allocate_node that reused the freed slot 0 of a pool of several slots,
\* another index being free as well
AllocateWitness ==
    /\ LastCallIs("allocate_node")
    /\ result[Caller] = Some(0)
    /\ Len(node_pool.nodes) >= 2
    /\ node_pool.free_indices # <<>>

\* what deallocate_node(index) did to the pool
DeallocateDid(index) ==
    IF index \in Slots(node_pool)
    THEN /\ Len(node_pool'.nodes) = Len(node_pool.nodes)
         /\ node_pool'.nodes[index + 1].bodies = Bodies_new
         /\ node_pool'.nodes[index + 1].cold_data.children_indices = NoChildren
         /\ node_pool'.free_indices = Append(node_pool.free_indices, index)
         /\ \A j \in Slots(node_pool) \ {index} :
                node_pool'.nodes[j + 1] = node_pool.nodes[j + 1]
    ELSE node_pool' = node_pool

\* get_node and get_node_mut of an index that is not a slot
OutOfRangeIsNone ==
    \A index \in 0..(MaxSlots + 1) :
        IsSome(get_node(node_pool, index)) <=> index \in Slots(node_pool)

\* C22: deallocate_node(i) with i in range empties the body arrays and the
\* child links of slot i and pushes i on the free list, changing no other slot
\* (the children of the node are not freed); with i out of range it changes
\* nothing; get_node and get_node_mut of an out-of-range index are None.
DeallocateContract ==
    /\ []OutOfRangeIsNone
    /\ [][ LastCallIs("deallocate_node")' =>
               DeallocateDid(Unwrap(query'[Caller])[2]) ]_vars

\* a deallocate_node of slot 0 holding an internal node with a child link,
\* slot 1 holding a leaf with a body
DeallocateWitness ==
    /\ LastCallIs("deallocate_node")
    /\ Unwrap(query[Caller])[2] = 0
    /\ Len(node_pool.nodes) >= 2
    /\ is_internal(node_pool.nodes[1])
    /\ Bodies_len(node_pool.nodes[2].bodies) > 0
    /\ node_pool.free_indices = <<0>>

\* the free list names no index twice and no index of a live node
FreeListSound ==
    /\ \A m, n \in 1..Len(node_pool.free_indices) :
           node_pool.free_indices[m] = node_pool.free_indices[n] => m = n
    /\ \A m \in 1..Len(node_pool.free_indices) : node_pool.free_indices[m] \notin held

\* C29: through any sequence of allocate_node, deallocate_node and clear,
\* allocate_node never returns an index that a live node holds: the free list
\* never names an index twice, nor the index of a live node, also when
\* deallocate_node is called on an index that is free already.
NoAliasing ==
    /\ []FreeListSound
    /\ [][ LastCallIs("allocate_node")' => Unwrap(result'[Caller]) \notin held ]_vars

\* ------------------------------------------------------- claims on the LegacyOctree
AllMassless(bodies) == \A i \in 1..Len(bodies) : bodies[i].mass = 0

\* C23: after LegacyOctree::build(B), on a fresh octree or after earlier
\* builds, the root's count_bodies() is the number of bodies of B, and the root
\* is None exactly when B is empty.
LegacyCountsBodies ==
    /\ legacy.root = None <=> legacy_built = <<>>
    /\ IsSome(legacy.root) => count_bodies(Unwrap(legacy.root)) = Len(legacy_built)

\* a rebuild (the pool holds the children array of an earlier internal root)
\* that left an internal root over two bodies
LegacyCountsWitness ==
    /\ IsSome(legacy.root)
    /\ Unwrap(legacy.root).type = "Internal"
    /\ Len(legacy_built) = 2
    /\ LegacyPool_stats(legacy.octree_node_pool)[1] > 0

\* C24: after the first build on a LegacyOctree whose pool is empty,
\* pool_stats() is (0, 0) whatever the bodies: every buffer taken during the
\* build is in use by the new tree.
FirstBuildLeavesPoolEmpty ==
    [][ ( /\ legacy.root = None
          /\ LegacyPool_stats(legacy.octree_node_pool) = <<0, 0>>
          /\ IsSome(legacy'.root) )
        => LegacyPool_stats(legacy'.octree_node_pool) = <<0, 0>> ]_vars

\* C25: a LegacyOctree built from bodies that are all of mass zero has a root
\* whose total_mass() is 0 and whose center_of_mass() is the zero vector, be the
\* root a leaf or an internal node.
MasslessRootAtOrigin ==
    (legacy_built # <<>> /\ AllMassless(legacy_built))
        => /\ total_mass(Unwrap(legacy.root)) = 0
           /\ center_of_mass(Unwrap(legacy.root)) = RZERO

\* the stored bodies other than body at min_distance or more from it
FarOthers(body) ==
    {i \in 1..Len(legacy_built) :
        /\ legacy_built[i].entity # body.entity
        /\ ~within_min_distance(body.position, [n |-> legacy_built[i].position, d |-> 1])}
Stored(body) == \E i \in 1..Len(legacy_built) : legacy_built[i] = body
CalledBody == Unwrap(query[Caller])[2]
Counted == legacy'.force_calculation_count - legacy.force_calculation_count
\* the step is a calculate_force call (a build changes the tree, the pool or
\* crashed, or else changes nothing at all)
ForceCallStep ==
    /\ LastCallIs("calculate_force")'
    /\ legacy'.root = legacy.root
    /\ legacy'.octree_node_pool = legacy.octree_node_pool
    /\ UNCHANGED <<legacy_built, crashed>>

OctantOf(b, index) ==
    Aabb3d_new([axis \in 1..3 |-> IF Bit(index, axis) = 1 THEN center(b)[axis]
                                  ELSE b.min[axis]],
               [axis \in 1..3 |-> IF Bit(index, axis) = 1 THEN b.max[axis]
                                  ELSE center(b)[axis]])
ChildOf(n, i) == Unwrap(node_pool.nodes[n + 1].cold_data.children_indices[i])
WithinClosed(position, b) ==
    \A axis \in 1..3 : b.min[axis] <= position[axis] /\ position[axis] <= b.max[axis]
Leaves == {n \in {TreeNodes[k] : k \in 1..Len(TreeNodes)} :
              is_external(node_pool.nodes[n + 1])}

\* C27: after build the bounds of every child node are the octant of its
\* parent's bounds that its child slot names (inside the parent, the eight
\* octants meeting on the planes through the centre only), and every body
\* stored in a leaf lies within the closed bounds of that leaf.
OctantBounds ==
    /\ \A n \in InternalNodes : \A i \in PresentSlots(n) :
          /\ BoundsOf(ChildOf(n, i)) = OctantOf(BoundsOf(n), i - 1)
          /\ BoundsOf(ChildOf(n, i)) = subdivide_into_children(BoundsOf(n))[i]
          /\ WithinClosed(BoundsOf(ChildOf(n, i)).min, BoundsOf(n))
          /\ WithinClosed(BoundsOf(ChildOf(n, i)).max, BoundsOf(n))
    /\ \A n \in Leaves : \A k \in 1..Len(Bodies_iter(node_pool.nodes[n + 1].bodies)) :
          WithinClosed(Bodies_iter(node_pool.nodes[n + 1].bodies)[k].position, BoundsOf(n))

\* a tree of two levels of internal nodes with a leaf body on a face of its
\* leaf's box
OctantBoundsWitness ==
    /\ \E n \in InternalNodes : \E i \in PresentSlots(n) : ChildOf(n, i) \in InternalNodes
    /\ \E n \in Leaves : \E k \in 1..Len(Bodies_iter(node_pool.nodes[n + 1].bodies)) :
          \E axis \in 1..3 :
              Bodies_iter(node_pool.nodes[n + 1].bodies)[k].position[axis]
                  = BoundsOf(n).min[axis]

\* ------------------------------------------------------- claims on the arena
\* how often slot occurs in the sequence s
Times(slot, s) == Cardinality({k \in 1..Len(s) : s[k] = slot})

\* C28: after every build and clear_pool each slot of the arena is either
\* reachable from root_index along exactly one path or exactly once in the
\* free list, never both and never neither; after a build of a collection that
\* is not empty the free list is empty, root_index is 0 and pool_stats() is
\* (octree_stats().node_count, 0).
ArenaPartition ==
    /\ \A slot \in Slots(node_pool) :
           Times(slot, TreeNodes) + Times(slot, node_pool.free_indices) = 1
    /\ \A k \in 1..Len(node_pool.free_indices) :
           node_pool.free_indices[k] \in Slots(node_pool)
    /\ IsSome(root_index) =>
           /\ node_pool.free_indices = <<>>
           /\ root_index = Some(0)
           /\ Pool_stats(node_pool) = <<Stats.node_count, 0>>

\* the build of no body after a tree of three or more nodes: no root, all
\* slots on the free list
ArenaWitness ==
    /\ root_index = None
    /\ built = <<>>
    /\ Len(node_pool.nodes) >= 3
    /\ Len(node_pool.free_indices) = Len(node_pool.nodes)

\* ------------------------------------------------------- claims on the estimate
\* C30: get_bounds(Some(d)) computes its capacity estimate, the sum of 8^k for
\* k in 0..=d capped at 1024, without usize overflow and returns normally for
\* every d, d >= 22 included.
EstimateNeverOverflows ==
    [][ LastCallIs("get_bounds")' =>
            /\ ~crashed'
            /\ ~result'[Caller].overflowed ]_vars
====
